---- MODULE Spec2Model ----
(***************************************************************************)
(* Verification model of the detection pipeline of pytorch-hrvvi-ext:      *)
(* anchor matching (hutil MultiLevelAnchorMatching, horch match_anchors),  *)
(* MultiBoxLoss, MultiLevelAnchorInference, coordinate encoding, mAP and   *)
(* the stacked feature pyramid.                                            *)
(*                                                                         *)
(* Numbers.  Tensor entries are real numbers in the program.  The model    *)
(* keeps them exact: coordinates are integers in half units of the box     *)
(* grid (so that the centre l + w/2 of an integer box is an integer),      *)
(* quotients are normalised fractions <<n, d>> with d > 0, IoU values are  *)
(* fractions compared by cross multiplication, and log/exp act on ratios   *)
(* that are powers of two, in units of ln 2.  Floating point rounding is   *)
(* outside the model.                                                      *)
(***************************************************************************)
EXTENDS Integers, Sequences, FiniteSets, TLC

None == "None"

\* how a call ends: it raises an exception or returns a value
Raise(e) == [kind |-> "raise", error |-> e]

Return(t) == [kind |-> "return", targets |-> t]

----------------------------------------------------------------------------
(* Exact arithmetic *)

Abs(x) == IF x < 0 THEN 0 - x ELSE x

Min(a, b) == IF a < b THEN a ELSE b

Max(a, b) == IF a > b THEN a ELSE b

RECURSIVE GCD(_, _)
GCD(a, b) == IF b = 0 THEN a ELSE GCD(b, a % b)

\* the fraction n/d in lowest terms with a positive denominator; a division by
\* zero gives 1/0 (inf), -1/0 (-inf) or 0/0 (nan)
Frac(n, d) ==
    LET s == IF d < 0 THEN 0 - 1 ELSE 1
        g == GCD(Abs(n), Abs(d))
    IN  IF d = 0 THEN <<IF n > 0 THEN 1 ELSE IF n < 0 THEN 0 - 1 ELSE 0, 0>>
        ELSE <<(s * n) \div g, (s * d) \div g>>

FracAdd(p, q) == Frac(p[1] * q[2] + q[1] * p[2], p[2] * q[2])

FracMul(p, q) == Frac(p[1] * q[1], p[2] * q[2])

FracDiv(p, q) == Frac(p[1] * q[2], p[2] * q[1])

FracLt(p, q) == p[1] * q[2] < q[1] * p[2]

FracLe(p, q) == p[1] * q[2] <= q[1] * p[2]

\* log of the ratio n/d, a power of two, in units of ln 2
RECURSIVE Log2(_, _)
Log2(n, d) ==
    IF n = d THEN 0
    ELSE IF n > d THEN 1 + Log2(n, 2 * d)
    ELSE Log2(2 * n, d) - 1

\* exp of k ln 2, as a fraction
RECURSIVE Exp2(_)
Exp2(k) ==
    IF k = 0 THEN <<1, 1>>
    ELSE IF k > 0 THEN FracMul(<<2, 1>>, Exp2(k - 1))
    ELSE FracMul(<<1, 2>>, Exp2(k + 1))

Range(s) == {s[i] : i \in 1..Len(s)}

SetMax(S) == CHOOSE m \in S : \A n \in S : n <= m

RECURSIVE SeqsUpTo(_, _)
SeqsUpTo(S, n) ==
    IF n = 0 THEN {<<>>}
    ELSE LET R == SeqsUpTo(S, n - 1)
         IN  R \cup {Append(r, x) : r \in {q \in R : Len(q) = n - 1}, x \in S}

----------------------------------------------------------------------------
(* Boxes.  BBox.LTWH -> BBox.XYWH -> BBox.LTRB, in half units. *)

\* transform_bbox(box, BBox.LTWH, BBox.XYWH): centre (l + w/2, t + h/2), size (w, h)
LTWH_to_XYWH(b) == <<2 * b[1] + b[3], 2 * b[2] + b[4], 2 * b[3], 2 * b[4]>>

\* BBox.convert(box, BBox.XYWH, BBox.LTRB): corners x -+ w/2, y -+ h/2
XYWH_to_LTRB(b) ==
    <<b[1] - b[3] \div 2, b[2] - b[4] \div 2, b[1] + b[3] \div 2, b[2] + b[4] \div 2>>

\* intersection over union of two LTRB boxes, as the fraction <<inter, union>>
iou_11(a, b) ==
    LET w == Max(0, Min(a[3], b[3]) - Max(a[1], b[1]))
        h == Max(0, Min(a[4], b[4]) - Max(a[2], b[2]))
        inter == w * h
        areaA == (a[3] - a[1]) * (a[4] - a[2])
        areaB == (b[3] - b[1]) * (b[4] - b[2])
    IN  <<inter, areaA + areaB - inter>>

\* iou_1m(bbox, anchors, format=BBox.XYWH): IoU of one box with each anchor
iou_1m(bbox, anchors) ==
    [a \in 1..Len(anchors) |-> iou_11(XYWH_to_LTRB(bbox), XYWH_to_LTRB(anchors[a]))]

\* tensor.max(dim=0) of a vector of fractions: <<value, index>>, the first maximal index
RECURSIVE MaxFrom(_, _, _)
MaxFrom(v, i, best) ==
    IF i > Len(v) THEN <<v[best], best>>
    ELSE MaxFrom(v, i + 1, IF FracLt(v[best], v[i]) THEN i ELSE best)

TensorMax(v) == MaxFrom(v, 2, 1)

----------------------------------------------------------------------------
(* Bounds of the model *)

\* longest annotation list of one image
MaxAnns == 2

\* largest batch of images
MaxBatch == 2

----------------------------------------------------------------------------
(* State *)

VARIABLES
    \* hutil MultiLevelAnchorMatching: constructor arguments and __call__ locals
    m_max_iou, m_pos_thresh, m_neg_thresh, m_anns, m_k,
    m_loc_targets, m_cls_targets, m_negs, m_targets, m_pc,
    \* horch match_anchors / match_anchors2: arguments, the function called, its result
    h_anns, h_pos_thresh, h_neg_thresh, h_func, h_target, h_pc,
    \* horch MatchAnchors: constructor arguments, the batch, and __call__ locals
    c_neg_thresh, c_is_cpu, c_image_gts, c_i, c_loc_targets, c_cls_targets, c_negs,
    c_result, c_pc,
    \* hutil MultiBoxLoss: constructor arguments, forward's arguments and locals
    l_neg_pos_ratio, l_p, l_form, l_cls_targets, l_ignores, l_bg, l_level,
    l_loc_loss, l_cls_loss, l_mined, l_result, l_pc,
    \* hutil MultiLevelAnchorInference: constructor arguments, predictions, __call__ locals
    i_nms, i_topk, i_topk_per_level, i_conf_threshold, i_num_levels, i_preds,
    i_image, i_image_dets, i_pc,
    \* coords_to_target / target_to_coords: arguments, encoded targets, decoded boxes
    k_func, k_box, k_anchors, k_target, k_coords, k_pc,
    \* hutil mAP: arguments, loop position, maps, returned value
    p_dets, p_gts, p_i, p_maps, p_result, p_pc,
    \* horch stacked_fpn: arguments, layers, loop variable, returned module
    s_num_stacked, s_in_channels_list, s_f_channels, s_lite, s_upsample, s_layers, s_i, s_result, s_pc,
    \* horch FPN / FPN2: constructor arguments, module, forward inputs and locals
    w_kind, w_in_channels_list, w_f_channels, w_lite, w_upsample, w_num_inputs, w_module, w_feats, w_j, w_result, w_pc,
    \* hutil segmentation ToTensor: num_classes, seg pixels, target array, returned target
    t_num_classes, t_seg, t_target, t_result, t_pc,
    \* hutil AP: arguments, loop position, TP, seen, the envelope, returned value
    a_dts, a_gts, a_i, a_TP, a_seen, a_mpre, a_ap, a_pc,
    \* hutil get_locations: arguments, lx, ly, locations, passes done, returned list
    g_size, g_strides, g_lx, g_ly, g_locations, g_n, g_result, g_pc,
    \* horch sample: t, n, drawn positions, result
    r_t, r_n, r_indices, r_result, r_pc

matchVars ==
    <<m_max_iou, m_pos_thresh, m_neg_thresh, m_anns, m_k,
      m_loc_targets, m_cls_targets, m_negs, m_targets, m_pc>>

horchVars == <<h_anns, h_pos_thresh, h_neg_thresh, h_func, h_target, h_pc>>

callVars ==
    <<c_neg_thresh, c_is_cpu, c_image_gts, c_i, c_loc_targets, c_cls_targets, c_negs,
      c_result, c_pc>>

lossVars ==
    <<l_neg_pos_ratio, l_p, l_form, l_cls_targets, l_ignores, l_bg, l_level,
      l_loc_loss, l_cls_loss, l_mined, l_result, l_pc>>

inferVars ==
    <<i_nms, i_topk, i_topk_per_level, i_conf_threshold, i_num_levels, i_preds,
      i_image, i_image_dets, i_pc>>

coordVars == <<k_func, k_box, k_anchors, k_target, k_coords, k_pc>>

mapVars == <<p_dets, p_gts, p_i, p_maps, p_result, p_pc>>

stackVars == <<s_num_stacked, s_in_channels_list, s_f_channels, s_lite, s_upsample, s_layers, s_i, s_result, s_pc>>

pyramidVars == <<w_kind, w_in_channels_list, w_f_channels, w_lite, w_upsample, w_num_inputs, w_module, w_feats, w_j, w_result, w_pc>>

segVars == <<t_num_classes, t_seg, t_target, t_result, t_pc>>

apVars == <<a_dts, a_gts, a_i, a_TP, a_seen, a_mpre, a_ap, a_pc>>

locationsVars == <<g_size, g_strides, g_lx, g_ly, g_locations, g_n, g_result, g_pc>>

sampleVars == <<r_t, r_n, r_indices, r_result, r_pc>>

vars == <<matchVars, horchVars, callVars, lossVars, inferVars, coordVars, mapVars, stackVars, pyramidVars, segVars, apVars, locationsVars, sampleVars>>

\* the variables of the other components, which a component's actions leave alone
NotMatch == <<horchVars, callVars, lossVars, inferVars, coordVars, mapVars, stackVars, pyramidVars, segVars, apVars, locationsVars, sampleVars>>

NotHorch == <<matchVars, callVars, lossVars, inferVars, coordVars, mapVars, stackVars, pyramidVars, segVars, apVars, locationsVars, sampleVars>>

NotCall == <<matchVars, horchVars, lossVars, inferVars, coordVars, mapVars, stackVars, pyramidVars, segVars, apVars, locationsVars, sampleVars>>

NotLoss == <<matchVars, horchVars, callVars, inferVars, coordVars, mapVars, stackVars, pyramidVars, segVars, apVars, locationsVars, sampleVars>>

NotInfer == <<matchVars, horchVars, callVars, lossVars, coordVars, mapVars, stackVars, pyramidVars, segVars, apVars, locationsVars, sampleVars>>

NotCoords == <<matchVars, horchVars, callVars, lossVars, inferVars, mapVars, stackVars, pyramidVars, segVars, apVars, locationsVars, sampleVars>>

NotMap == <<matchVars, horchVars, callVars, lossVars, inferVars, coordVars, stackVars, pyramidVars, segVars, apVars, locationsVars, sampleVars>>

NotStack == <<matchVars, horchVars, callVars, lossVars, inferVars, coordVars, mapVars, pyramidVars, segVars, apVars, locationsVars, sampleVars>>

NotPyramid == <<matchVars, horchVars, callVars, lossVars, inferVars, coordVars, mapVars, stackVars, segVars, apVars, locationsVars, sampleVars>>

NotSeg == <<matchVars, horchVars, callVars, lossVars, inferVars, coordVars, mapVars, stackVars, pyramidVars, apVars, locationsVars, sampleVars>>

NotAp == <<matchVars, horchVars, callVars, lossVars, inferVars, coordVars, mapVars, stackVars, pyramidVars, segVars, locationsVars, sampleVars>>

NotLocations == <<matchVars, horchVars, callVars, lossVars, inferVars, coordVars, mapVars, stackVars, pyramidVars, segVars, apVars, sampleVars>>

NotSample == <<matchVars, horchVars, callVars, lossVars, inferVars, coordVars, mapVars, stackVars, pyramidVars, segVars, apVars, locationsVars>>

----------------------------------------------------------------------------
(* Coordinate encoding *)

\* hutil coords_to_target(gt_box, anchors, *args) for one anchor; boxes are XYWH
hutil_coords_to_target(gt_box, anchor) ==
    <<Frac(gt_box[1] - anchor[1], anchor[3]),
      Frac(gt_box[2] - anchor[2], anchor[4]),
      Log2(gt_box[3], anchor[3]),
      Log2(gt_box[4], anchor[4])>>

----------------------------------------------------------------------------
(* hutil MultiLevelAnchorMatching *)

\* the anchors the matcher is constructed with: XYWH, half units, two levels
\* (two 2x2 anchors side by side, one 4x2 anchor over both)
anchors_of_level == << << <<2, 2, 4, 4>>, <<6, 2, 4, 4>> >>, << <<4, 2, 8, 4>> >> >>

NumLevels == Len(anchors_of_level)

Levels == 1..NumLevels

\* annotations: bbox is [xmin, ymin, width, height] in whole units
AnnBoxes == {<<l, 0, w, h>> : l \in 0..2, w \in {1, 2}, h \in {1, 2}}

Labels == {1, 2}

Anns == [bbox : AnnBoxes, category_id : Labels]

\* threshold arguments: None or a fraction
PosThreshs == {None, <<1, 2>>, <<3, 10>>}

NegThreshs == {None, <<1, 4>>}

\* Python truth value of a threshold argument (`if self.pos_thresh:`)
Truthy(t) == t /= None /\ t[1] /= 0

Zero4 == <<0, 0, 0, 0>>

\* torch.zeros(num_anchors, 4), torch.zeros(num_anchors), torch.ones(num_anchors) per level
ZeroLoc == [l \in Levels |-> [a \in 1..Len(anchors_of_level[l]) |-> Zero4]]

ZeroCls == [l \in Levels |-> [a \in 1..Len(anchors_of_level[l]) |-> 0]]

InitNegs(neg_thresh) ==
    [l \in Levels |->
        IF Truthy(neg_thresh) THEN [a \in 1..Len(anchors_of_level[l]) |-> TRUE] ELSE None]

\* XYWH box of an annotation (get_bbox, transform_bbox LTWH -> XYWH)
AnnBBox(ann) == LTWH_to_XYWH(ann.bbox)

\* the IoU of an annotation with the anchors of a level
LevelIous(ann, l) == iou_1m(AnnBBox(ann), anchors_of_level[l])

\* max(enumerate(max_ious), key=...): the first level holding the greatest maximum
RECURSIVE FirstMaxLevel(_, _, _)
FirstMaxLevel(max_ious, l, best) ==
    IF l > Len(max_ious) THEN best
    ELSE FirstMaxLevel(max_ious, l + 1,
             IF FracLt(max_ious[best][1], max_ious[l][1]) THEN l ELSE best)

\* the per-level part of one annotation: the threshold assignment
ThreshPos(ious, pos_thresh) ==
    IF Truthy(pos_thresh) THEN {a \in DOMAIN ious : FracLt(pos_thresh, ious[a])} ELSE {}

\* AssignPos writing only the anchors that no annotation has been assigned to yet
AssignPos_KeepAssigned(ann, l, loc_t, cls_t, pos_thresh) ==
    LET pos == {a \in ThreshPos(LevelIous(ann, l), pos_thresh) : cls_t[a] = 0}
    IN  [loc |-> [a \in DOMAIN loc_t |->
                    IF a \in pos
                    THEN hutil_coords_to_target(AnnBBox(ann), anchors_of_level[l][a])
                    ELSE loc_t[a]],
         cls |-> [a \in DOMAIN cls_t |->
                    IF a \in pos THEN ann.category_id ELSE cls_t[a]]]

\* loc_t[pos] = coords_to_target(bbox, anchors[pos]); cls_t[pos] = label
AssignPos(ann, l, loc_t, cls_t, pos_thresh) ==
    LET pos == ThreshPos(LevelIous(ann, l), pos_thresh)
    IN  [loc |-> [a \in DOMAIN loc_t |->
                    IF a \in pos
                    THEN hutil_coords_to_target(AnnBBox(ann), anchors_of_level[l][a])
                    ELSE loc_t[a]],
         cls |-> [a \in DOMAIN cls_t |->
                    IF a \in pos THEN ann.category_id ELSE cls_t[a]]]

\* neg &= ious < self.neg_thresh
UpdateNeg(ann, l, neg, neg_thresh) ==
    IF Truthy(neg_thresh)
    THEN [a \in DOMAIN neg |-> neg[a] /\ FracLt(LevelIous(ann, l)[a], neg_thresh)]
    ELSE neg

\* mutant of MaxAnchor: the maximum is looked for on the first level only
MaxAnchor_FirstLevelOnly(ann) == <<1, TensorMax(LevelIous(ann, 1))[2]>>

\* the max-IoU anchor of an annotation: <<level, index>>
MaxAnchor(ann) ==
    LET max_ious == [l \in Levels |-> TensorMax(LevelIous(ann, l))]
        f_i == FirstMaxLevel(max_ious, 2, 1)
    IN  <<f_i, max_ious[f_i][2]>>

\* the body of `for ann in anns` for the annotation m_anns[m_k]
MatchAnn ==
    /\ m_pc = "loop"
    /\ m_k <= Len(m_anns)
    /\ LET ann == m_anns[m_k]
           per == [l \in Levels |->
                      AssignPos(ann, l, m_loc_targets[l], m_cls_targets[l], m_pos_thresh)]
           mx == MaxAnchor(ann)
       IN  /\ m_loc_targets' =
                 [l \in Levels |-> [a \in DOMAIN per[l].loc |->
                     IF <<l, a>> = mx
                     THEN hutil_coords_to_target(AnnBBox(ann), anchors_of_level[l][a])
                     ELSE per[l].loc[a]]]
           /\ m_cls_targets' =
                 [l \in Levels |-> [a \in DOMAIN per[l].cls |->
                     IF <<l, a>> = mx THEN ann.category_id ELSE per[l].cls[a]]]
           /\ m_negs' = [l \in Levels |-> UpdateNeg(ann, l, m_negs[l], m_neg_thresh)]
    /\ m_k' = m_k + 1
    /\ UNCHANGED <<m_max_iou, m_pos_thresh, m_neg_thresh, m_anns, m_targets, m_pc>>
    /\ UNCHANGED NotMatch

\* after the loop: ignores, the single-level unwrapping, the returned targets
MatchReturn ==
    /\ m_pc = "loop"
    /\ m_k > Len(m_anns)
    /\ LET ignores == [l \in Levels |-> [a \in DOMAIN m_negs[l] |-> ~m_negs[l][a]]]
           single == NumLevels = 1
           loc == IF single THEN m_loc_targets[1] ELSE m_loc_targets
           cls == IF single THEN m_cls_targets[1] ELSE m_cls_targets
       IN  m_targets' =
              IF Truthy(m_neg_thresh)
              THEN <<loc, cls, IF single THEN ignores[1] ELSE ignores>>
              ELSE <<loc, cls>>
    /\ m_pc' = "done"
    /\ UNCHANGED <<m_max_iou, m_pos_thresh, m_neg_thresh, m_anns, m_k,
                   m_loc_targets, m_cls_targets, m_negs>>
    /\ UNCHANGED NotMatch

\* a matcher constructed with any arguments, entering __call__ on any annotation list
MatchInit ==
    /\ m_max_iou \in BOOLEAN
    /\ m_pos_thresh \in PosThreshs
    /\ m_neg_thresh \in NegThreshs
    /\ m_anns \in SeqsUpTo(Anns, MaxAnns)
    /\ m_k = 1
    /\ m_loc_targets = ZeroLoc
    /\ m_cls_targets = ZeroCls
    /\ m_negs = InitNegs(m_neg_thresh)
    /\ m_targets = None
    /\ m_pc = "loop"

MatchIdle ==
    /\ m_max_iou = FALSE
    /\ m_pos_thresh = None
    /\ m_neg_thresh = None
    /\ m_anns = <<>>
    /\ m_k = 1
    /\ m_loc_targets = ZeroLoc
    /\ m_cls_targets = ZeroCls
    /\ m_negs = InitNegs(None)
    /\ m_targets = None
    /\ m_pc = "idle"

MatchNext == MatchAnn \/ MatchReturn

----------------------------------------------------------------------------
(* horch match_anchors and match_anchors2 *)

\* horch coords_to_target(gt_box, anchors) for one box and one anchor, both XYWH
coords_to_target(gt_box, anchor) ==
    <<Frac(gt_box[1] - anchor[1], anchor[3]),
      Frac(gt_box[2] - anchor[2], anchor[4]),
      Log2(gt_box[3], anchor[3]),
      Log2(gt_box[4], anchor[4])>>

\* coords_to_target2(bboxes, anchors): the (n, m) table of targets
coords_to_target2(bboxes, anchors) ==
    [i \in 1..Len(bboxes) |-> [a \in 1..Len(anchors) |->
        <<Frac(bboxes[i][1] - anchors[a][1], anchors[a][3]),
          Frac(bboxes[i][2] - anchors[a][2], anchors[a][4]),
          Log2(bboxes[i][3], anchors[a][3]),
          Log2(bboxes[i][4], anchors[a][4])>>]]

\* flatten(anchors): the anchors of all levels in one list; and their LTRB form
a_xywh == anchors_of_level[1] \o anchors_of_level[2]

a_ltrb == [a \in 1..Len(a_xywh) |-> XYWH_to_LTRB(a_xywh[a])]

\* iou_mn(bboxes_ltrb, a_ltrb): the (n, m) table of IoUs
iou_mn(boxes1, boxes2) ==
    [i \in 1..Len(boxes1) |-> [a \in 1..Len(boxes2) |-> iou_11(boxes1[i], boxes2[a])]]

\* a row of a_xywh.new_zeros(num_anchors, 4), in the form of a location target
ZeroTarget == <<<<0, 1>>, <<0, 1>>, 0, 0>>

\* the early return for an empty annotation list
EmptyTarget(num_anchors, neg_thresh) ==
    LET loc_t == [a \in 1..num_anchors |-> ZeroTarget]
        cls_t == [a \in 1..num_anchors |-> 0]
    IN  IF Truthy(neg_thresh)
        THEN <<loc_t, cls_t, [a \in 1..num_anchors |-> FALSE]>>
        ELSE <<loc_t, cls_t>>

\* ious.max(dim=1): for every annotation the index of its max-IoU anchor
MaxIndices(ious) == [i \in 1..Len(ious) |-> TensorMax(ious[i])[2]]

\* t[indices] = values with repeated indices: which of the writers of an index
\* lands is not defined; a winner assignment names one writer per written index
WinnerChoices(indices) ==
    LET written == Range(indices)
    IN  {w \in [written -> 1..Len(indices)] : \A a \in written : indices[w[a]] = a}

\* mutant of IgnoreMask: the class target is not looked at
IgnoreMask_AnyClass(cls_t, ious, neg_thresh) ==
    [a \in DOMAIN cls_t |-> \E i \in 1..Len(ious) : FracLe(neg_thresh, ious[i][a])]

\* ignore = (cls_t == 0) & ((ious >= neg_thresh).sum(dim=0) != 0)
IgnoreMask(cls_t, ious, neg_thresh) ==
    [a \in DOMAIN cls_t |->
        cls_t[a] = 0 /\ \E i \in 1..Len(ious) : FracLe(neg_thresh, ious[i][a])]

WithIgnore(loc_t, cls_t, ious, neg_thresh) ==
    IF Truthy(neg_thresh)
    THEN <<loc_t, cls_t, IgnoreMask(cls_t, ious, neg_thresh)>>
    ELSE <<loc_t, cls_t>>

\* the last annotation in input order whose IoU with anchor a exceeds pos_thresh (0: none)
LastPos(ious, pos_thresh, a) ==
    LET P == {i \in 1..Len(ious) : FracLt(pos_thresh, ious[i][a])}
    IN  IF P = {} THEN 0 ELSE SetMax(P)

\* match_anchors (the loop version), for the winner assignment w of its index writes
match_anchors(anns, pos_thresh, neg_thresh, w) ==
    LET bboxes == [i \in 1..Len(anns) |-> LTWH_to_XYWH(anns[i].bbox)]
        labels == [i \in 1..Len(anns) |-> anns[i].category_id]
        bboxes_ltrb == [i \in 1..Len(anns) |-> XYWH_to_LTRB(bboxes[i])]
        ious == iou_mn(bboxes_ltrb, a_ltrb)
        \* for ipos, bbox, label in zip(pos, bboxes, labels): the last writer stays
        loc1 == [a \in 1..Len(a_xywh) |->
                    LET i == LastPos(ious, pos_thresh, a)
                    IN  IF i = 0 THEN ZeroTarget ELSE coords_to_target(bboxes[i], a_xywh[a])]
        cls1 == [a \in 1..Len(a_xywh) |->
                    LET i == LastPos(ious, pos_thresh, a)
                    IN  IF i = 0 THEN 0 ELSE labels[i]]
        loc_t == [a \in 1..Len(a_xywh) |->
                    IF a \in DOMAIN w THEN coords_to_target(bboxes[w[a]], a_xywh[a])
                    ELSE loc1[a]]
        cls_t == [a \in 1..Len(a_xywh) |-> IF a \in DOMAIN w THEN labels[w[a]] ELSE cls1[a]]
    IN  WithIgnore(loc_t, cls_t, ious, neg_thresh)

\* (pos.long() * labels[:, None]).max(dim=0): per anchor <<value, first index>>
PosLabelMax(ious, labels, pos_thresh, a) ==
    LET v == [i \in 1..Len(ious) |->
                 <<IF FracLt(pos_thresh, ious[i][a]) THEN labels[i] ELSE 0, 1>>]
    IN  <<TensorMax(v)[1][1], TensorMax(v)[2]>>

\* match_anchors2 (the vectorised version), for the winner assignment w
match_anchors2(anns, pos_thresh, neg_thresh, w) ==
    LET bboxes == [i \in 1..Len(anns) |-> LTWH_to_XYWH(anns[i].bbox)]
        labels == [i \in 1..Len(anns) |-> anns[i].category_id]
        bboxes_ltrb == [i \in 1..Len(anns) |-> XYWH_to_LTRB(bboxes[i])]
        ious == iou_mn(bboxes_ltrb, a_ltrb)
        loc_t_all == coords_to_target2(bboxes, a_xywh)
        \* loc_t = select(loc_t_all, 0, indices): row indices[a] of column a
        loc1 == [a \in 1..Len(a_xywh) |->
                    loc_t_all[PosLabelMax(ious, labels, pos_thresh, a)[2]][a]]
        cls1 == [a \in 1..Len(a_xywh) |-> PosLabelMax(ious, labels, pos_thresh, a)[1]]
        loc_t == [a \in 1..Len(a_xywh) |->
                    IF a \in DOMAIN w THEN loc_t_all[w[a]][a] ELSE loc1[a]]
        cls_t == [a \in 1..Len(a_xywh) |-> IF a \in DOMAIN w THEN labels[w[a]] ELSE cls1[a]]
    IN  WithIgnore(loc_t, cls_t, ious, neg_thresh)

\* the winner assignments of the max-IoU writes of a call
CallWinners(anns) ==
    WinnerChoices(MaxIndices(iou_mn(
        [i \in 1..Len(anns) |-> XYWH_to_LTRB(LTWH_to_XYWH(anns[i].bbox))], a_ltrb)))

\* a call of match_anchors(anns, a_xywh, a_ltrb, pos_thresh, neg_thresh)
CallMatchAnchors ==
    /\ h_pc = "call"
    /\ h_func = "match_anchors"
    /\ IF Len(h_anns) = 0
       THEN h_target' = EmptyTarget(Len(a_xywh), h_neg_thresh)
       ELSE \E w \in CallWinners(h_anns) :
               h_target' = match_anchors(h_anns, h_pos_thresh, h_neg_thresh, w)
    /\ h_pc' = "done"
    /\ UNCHANGED <<h_anns, h_pos_thresh, h_neg_thresh, h_func>>
    /\ UNCHANGED NotHorch

\* a call of match_anchors2(anns, a_xywh, a_ltrb, pos_thresh, neg_thresh)
CallMatchAnchors2 ==
    /\ h_pc = "call"
    /\ h_func = "match_anchors2"
    /\ IF Len(h_anns) = 0
       THEN h_target' = EmptyTarget(Len(a_xywh), h_neg_thresh)
       ELSE \E w \in CallWinners(h_anns) :
               h_target' = match_anchors2(h_anns, h_pos_thresh, h_neg_thresh, w)
    /\ h_pc' = "done"
    /\ UNCHANGED <<h_anns, h_pos_thresh, h_neg_thresh, h_func>>
    /\ UNCHANGED NotHorch

HorchThreshs == {<<1, 2>>, <<3, 10>>}

HorchInit ==
    /\ h_anns \in SeqsUpTo(Anns, MaxAnns)
    /\ h_pos_thresh \in HorchThreshs
    /\ h_neg_thresh \in NegThreshs
    /\ h_func \in {"match_anchors", "match_anchors2"}
    /\ h_target = None
    /\ h_pc = "call"

HorchIdle ==
    /\ h_anns = <<>>
    /\ h_pos_thresh = None
    /\ h_neg_thresh = None
    /\ h_func = None
    /\ h_target = None
    /\ h_pc = "idle"

HorchNext == CallMatchAnchors \/ CallMatchAnchors2

----------------------------------------------------------------------------
(* horch MatchAnchors.__call__ *)

(* The call passes self.a_xywh[i] and self.a_ltrb[i], row i of the flattened     *)
(* (N, 4) anchor tensors, to the matching function, which takes its length, 4,   *)
(* for the number of anchors.  Targets are kept by their shapes: the number of   *)
(* rows of each tensor.  A batch entry is the number of annotations of an image. *)

\* len() of one row of the (N, 4) anchor tensor
RowLen == Len(a_xywh[1])

Unbound == "unbound"

\* the shape of the target match_func returns for an image without annotations
EmptyTargetShape(neg_thresh) ==
    [r \in DOMAIN EmptyTarget(RowLen, neg_thresh) |-> Len(EmptyTarget(RowLen, neg_thresh)[r])]

\* torch.cat(ts, dim=0) on shapes: the rows add up
RECURSIVE CatRows(_)
CatRows(ts) == IF Len(ts) = 0 THEN 0 ELSE ts[1] + CatRows(Tail(ts))

\* one pass of `for i in range(batch_size)`, match_func returning a target
CallLoopStep ==
    /\ c_pc = "loop"
    /\ c_i < Len(c_image_gts)
    \* match_func is taken to return: its targets have RowLen rows, as in the early
    \* return (with annotations, iou_mn, not part of these sources, gets one row)
    /\ LET target == EmptyTargetShape(c_neg_thresh)
       IN  /\ c_loc_targets' = Append(c_loc_targets, target[1])
           /\ c_cls_targets' = Append(c_cls_targets, target[2])
           /\ c_negs' = IF Truthy(c_neg_thresh) THEN Append(c_negs, target[3]) ELSE c_negs
    /\ c_i' = c_i + 1
    /\ UNCHANGED <<c_neg_thresh, c_is_cpu, c_image_gts, c_result, c_pc>>
    /\ UNCHANGED NotCall

\* after the loop: the three torch.cat and the returned list
CallReturn ==
    /\ c_pc = "loop"
    /\ c_i = Len(c_image_gts)
    /\ c_result' =
          IF c_negs = Unbound
          THEN Raise("UnboundLocalError")
          ELSE LET loc_t == CatRows(c_loc_targets)
                   cls_t == CatRows(c_cls_targets)
                   neg == CatRows(c_negs)
               IN  IF Truthy(c_neg_thresh)
                   THEN Return(<<loc_t, cls_t, neg>>)
                   ELSE Return(<<loc_t, cls_t>>)
    /\ c_pc' = "done"
    /\ UNCHANGED <<c_neg_thresh, c_is_cpu, c_image_gts, c_i, c_loc_targets,
                   c_cls_targets, c_negs>>
    /\ UNCHANGED NotCall

\* batches of 1..MaxBatch images with 0..MaxAnns annotations each
Batches == SeqsUpTo(0..MaxAnns, MaxBatch) \ {<<>>}

\* a matcher constructed with any neg_thresh on any device, entering __call__:
\* `if self.neg_thresh: negs = []` has run
CallInit ==
    /\ c_neg_thresh \in NegThreshs
    /\ c_is_cpu \in BOOLEAN
    /\ c_image_gts \in Batches
    /\ c_i = 0
    /\ c_loc_targets = <<>>
    /\ c_cls_targets = <<>>
    /\ c_negs = IF Truthy(c_neg_thresh) THEN <<>> ELSE Unbound
    /\ c_result = None
    /\ c_pc = "loop"

CallIdle ==
    /\ c_neg_thresh = None
    /\ c_is_cpu = TRUE
    /\ c_image_gts = <<>>
    /\ c_i = 0
    /\ c_loc_targets = <<>>
    /\ c_cls_targets = <<>>
    /\ c_negs = Unbound
    /\ c_result = None
    /\ c_pc = "idle"

CallNext == CallLoopStep \/ CallReturn

----------------------------------------------------------------------------
(* hutil MultiBoxLoss.forward *)

(* A level's tensors are tables over (image, anchor).  The per-anchor values of   *)
(* the criterion are inputs: BgLoss is -log_softmax(cls_p)[..., 0], the loss of   *)
(* an anchor against the background class; against its own class a positive      *)
(* anchor costs PosLoss, and its smooth L1 localisation loss is LocLoss.          *)

\* images of a batch, and anchors per image on each level
LossImages == 1..2

LossAnchors == <<2, 1>>

LossPairs(l) == LossImages \X (1..LossAnchors[l])

Tables(l, V) == [LossImages -> [1..LossAnchors[l] -> V]]

\* the background losses of the anchors: two batches of predictions
BgTables ==
    { << <<<<2, 1>>, <<1, 3>>>>, <<<<1>>, <<2>>>> >>,
      << <<<<1, 1>>, <<2, 2>>>>, <<<<3>>, <<1>>>> >> }

PosLoss == <<2, 1>>

LocLoss == <<3, 1>>

\* ignores=None (an ignore mask is a non-empty table)
NoIgnores == <<>>

\* a loss accumulator: the Python int 0 until a tensor has been added to it
IntZero == [type |-> "int", val |-> <<0, 1>>]

AddTensor(acc, v) == [type |-> "tensor", val |-> FracAdd(acc.val, v)]

RECURSIVE SumOver(_, _)
SumOver(S, f) ==
    IF S = {} THEN 0
    ELSE LET x == CHOOSE y \in S : TRUE IN f[x] + SumOver(S \ {x}, f)

\* the `ignore` that zip hands to the pass of level l, as a table over (image,
\* anchor).  loc_preds, cls_preds, loc_targets and cls_targets went through
\* _ensure_multi_level; ignores did not: a list yields the table of level l, a
\* tensor (the single-level form) yields its rows, and row 0, the mask of the
\* first image, broadcasts over the batch in `mask & (~ignore)`.
ZipIgnore(form, ignores, l) ==
    IF ignores = NoIgnores THEN NoIgnores
    ELSE IF form = "list" THEN ignores[l]
    ELSE [b \in LossImages |-> ignores[1][1]]

\* the number of passes of the zip loop
ZipLen(form, cls_targets, ignores) ==
    IF ignores = NoIgnores \/ form = "list" THEN Len(cls_targets)
    ELSE Min(Len(cls_targets), Cardinality(LossImages))

\* pos = cls_t != 0
PosOf(cls_t, l) == {x \in LossPairs(l) : cls_t[x[1]][x[2]] /= 0}

\* mask = ~pos; if ignore is not None: mask = mask & (~ignore)
MaskOf(cls_t, ignore, l) ==
    {x \in LossPairs(l) :
        /\ cls_t[x[1]][x[2]] = 0
        /\ (ignore /= NoIgnores => ~ignore[x[1]][x[2]])}

\* torch.topk(cls_loss_neg, num_neg): num_neg entries of the mask none of which is
\* smaller than an entry left out
TopK(mask, bg, num_neg) ==
    CHOOSE S \in SUBSET mask :
        /\ Cardinality(S) = num_neg
        /\ \A x \in S : \A y \in mask \ S : bg[x[1]][x[2]] >= bg[y[1]][y[2]]

\* the anchors whose classification loss the pass of a level adds up
NegsUsed(neg_pos_ratio, cls_t, ignore, bg, l) ==
    LET pos == PosOf(cls_t, l)
        mask == MaskOf(cls_t, ignore, l)
    IN  IF neg_pos_ratio /= 0
        THEN TopK(mask, bg, Min(neg_pos_ratio * Cardinality(pos), Cardinality(mask)))
        ELSE IF ignore /= NoIgnores THEN mask
        ELSE LossPairs(l) \ pos

\* one pass of the zip loop: a level without positives is skipped
LossLevel ==
    /\ l_pc = "loop"
    /\ l_level <= ZipLen(l_form, l_cls_targets, l_ignores)
    /\ LET l == l_level
           cls_t == l_cls_targets[l]
           ignore == ZipIgnore(l_form, l_ignores, l)
           bg == l_bg[l]
           pos == PosOf(cls_t, l)
           num_pos == Cardinality(pos)
           negs == NegsUsed(l_neg_pos_ratio, cls_t, ignore, bg, l)
           loc == SumOver(pos, [x \in LossPairs(l) |-> LocLoss[l]])
           cls_loss_pos == SumOver(pos, [x \in LossPairs(l) |-> PosLoss[l]])
           cls_loss_neg == SumOver(negs, [x \in LossPairs(l) |-> bg[x[1]][x[2]]])
       IN  IF num_pos = 0
           THEN /\ l_mined' = Append(l_mined, {})
                /\ UNCHANGED <<l_loc_loss, l_cls_loss>>
           ELSE /\ l_loc_loss' = AddTensor(l_loc_loss, Frac(loc, num_pos))
                /\ l_cls_loss' =
                      AddTensor(l_cls_loss, Frac(cls_loss_pos + cls_loss_neg, num_pos))
                /\ l_mined' = Append(l_mined, negs)
    /\ l_level' = l_level + 1
    /\ UNCHANGED <<l_neg_pos_ratio, l_p, l_form, l_cls_targets, l_ignores, l_bg,
                   l_result, l_pc>>
    /\ UNCHANGED NotLoss

\* values of random.random(): one below and one above the default p = 0.1
RandomDraws == {<<1, 20>>, <<1, 2>>}

\* after the loop: loss = cls_loss + loc_loss, the print with probability p
LossReturn ==
    /\ l_pc = "loop"
    /\ l_level > ZipLen(l_form, l_cls_targets, l_ignores)
    /\ \E r \in RandomDraws :
          l_result' =
             IF FracLt(r, l_p) /\ (l_loc_loss.type = "int" \/ l_cls_loss.type = "int")
             THEN Raise("AttributeError")
             ELSE Return([type |-> IF l_loc_loss.type = "int" /\ l_cls_loss.type = "int"
                                   THEN "int" ELSE "tensor",
                          val |-> FracAdd(l_cls_loss.val, l_loc_loss.val)])
    /\ l_pc' = "done"
    /\ UNCHANGED <<l_neg_pos_ratio, l_p, l_form, l_cls_targets, l_ignores, l_bg,
                   l_level, l_loc_loss, l_cls_loss, l_mined>>
    /\ UNCHANGED NotLoss

\* class targets and ignore masks of 1 level (tensor form) or 1..2 levels (list form)
LevelLists(V) ==
    {<<t>> : t \in Tables(1, V)} \cup
    {<<t, u>> : t \in Tables(1, V), u \in Tables(2, V)}

\* neg_pos_ratio: 0 stands for None (`if self.neg_pos_ratio:` takes both as unset)
NegPosRatios == {0, 1, 2}

LossInit ==
    /\ l_neg_pos_ratio \in NegPosRatios
    /\ l_p \in {<<0, 1>>, <<1, 10>>}
    /\ l_form \in {"tensor", "list"}
    /\ l_cls_targets \in LevelLists({0, 1})
    /\ l_form = "tensor" => Len(l_cls_targets) = 1
    /\ \/ l_ignores = NoIgnores
       \/ l_ignores \in {i \in LevelLists(BOOLEAN) : Len(i) = Len(l_cls_targets)}
    /\ l_bg \in BgTables
    /\ l_level = 1
    /\ l_loc_loss = IntZero
    /\ l_cls_loss = IntZero
    /\ l_mined = <<>>
    /\ l_result = None
    /\ l_pc = "loop"

LossIdle ==
    /\ l_neg_pos_ratio = 0
    /\ l_p = <<0, 1>>
    /\ l_form = "list"
    /\ l_cls_targets = <<>>
    /\ l_ignores = NoIgnores
    /\ l_bg = <<>>
    /\ l_level = 1
    /\ l_loc_loss = IntZero
    /\ l_cls_loss = IntZero
    /\ l_mined = <<>>
    /\ l_result = None
    /\ l_pc = "idle"

LossNext == LossLevel \/ LossReturn

----------------------------------------------------------------------------
(* hutil MultiLevelAnchorInference.__call__ *)

(* A prediction of an anchor is [loc, conf]: loc the regression output            *)
(* <<tx, ty, tw, th>> (tx, ty whole numbers, tw, th in units of ln 2), conf the   *)
(* confidences of the non-background classes after softmax or sigmoid             *)
(* (conf[..., 1:]), in percent.  Thresholds on confidences are percents too.      *)

\* the value of a fraction that is a whole number
Whole(f) == f[1] \div f[2]

\* box[:, :2].mul_(anchors[:, 2:]).add_(anchors[:, :2]); box[:, 2:].exp_().mul_(anchors[:, 2:])
DecodeBox(t, anchor) ==
    <<t[1] * anchor[3] + anchor[1],
      t[2] * anchor[4] + anchor[2],
      Whole(FracMul(Exp2(t[3]), <<anchor[3], 1>>)),
      Whole(FracMul(Exp2(t[4]), <<anchor[4], 1>>))>>

\* size = (width, height) of the constructor
InferSize == <<2, 2>>

\* box[:, [0, 2]] *= self.width; box[:, [1, 3]] *= self.height
ScaleBox(b) == <<b[1] * InferSize[1], b[2] * InferSize[2], b[3] * InferSize[1], b[4] * InferSize[2]>>

\* transform_bboxes(boxes, format=BBox.LTRB, to=BBox.LTWH)
LTRB_to_LTWH(b) == <<b[1], b[2], b[3] - b[1], b[4] - b[2]>>

\* torch.max(conf, dim=1) of one anchor: <<confidence, label>>, label counted from 0
ConfLabel(conf) ==
    LET v == [c \in 1..Len(conf) |-> <<conf[c], 1>>]
    IN  <<TensorMax(v)[1][1], TensorMax(v)[2] - 1>>

\* the entries of s at the positions of the set keep, in order
RECURSIVE Masked(_, _, _)
Masked(s, keep, n) ==
    IF n > Len(s) THEN <<>>
    ELSE IF n \in keep THEN <<s[n]>> \o Masked(s, keep, n + 1)
    ELSE Masked(s, keep, n + 1)

\* positions of scores in descending order of score, the earlier position first on a tie
RECURSIVE SortDesc(_, _)
SortDesc(S, score) ==
    IF S = {} THEN <<>>
    ELSE LET top == CHOOSE x \in S :
                        \A y \in S : score[x] > score[y] \/ (score[x] = score[y] /\ x <= y)
         IN  <<top>> \o SortDesc(S \ {top}, score)

\* ConfMask keeping the anchors whose confidence equals the threshold too
ConfMask_NotBelow(all, conf_threshold) ==
    IF conf_threshold > 0
    THEN {a \in 1..Len(all) : all[a].conf >= conf_threshold}
    ELSE 1..Len(all)

\* mask = conf > self.conf_threshold, applied only if self.conf_threshold > 0
ConfMask(all, conf_threshold) ==
    IF conf_threshold > 0
    THEN {a \in 1..Len(all) : all[a].conf > conf_threshold}
    ELSE 1..Len(all)

\* the candidates [box, conf, label] one level hands on for one image
LevelCandidates(preds, anchors, conf_threshold, num_levels, topk_per_level) ==
    LET all == [a \in 1..Len(preds) |->
                   [box |-> preds[a].loc,
                    conf |-> ConfLabel(preds[a].conf)[1],
                    label |-> ConfLabel(preds[a].conf)[2],
                    anchor |-> anchors[a]]]
        mask == ConfMask(all, conf_threshold)
        kept == Masked(all, mask, 1)
        dec == [n \in 1..Len(kept) |->
                   [box |-> ScaleBox(DecodeBox(kept[n].box, kept[n].anchor)),
                    conf |-> kept[n].conf, label |-> kept[n].label]]
        order == SortDesc(1..Len(dec), [n \in 1..Len(dec) |-> dec[n].conf])
    IN  IF num_levels > 1 /\ Len(dec) > topk_per_level
        THEN [n \in 1..topk_per_level |-> dec[order[n]]]
        ELSE dec

\* IoU of two candidates' LTRB boxes is above the threshold
Overlaps(b1, b2, iou_threshold) == FracLt(iou_threshold, iou_11(b1, b2))

\* greedy non-maximum suppression over positions in descending order of score
RECURSIVE Greedy(_, _, _)
Greedy(order, boxes, iou_threshold) ==
    IF order = <<>> THEN <<>>
    ELSE LET i == Head(order)
             rest == SelectSeq(Tail(order), LAMBDA j : ~Overlaps(boxes[i], boxes[j], iou_threshold))
         IN  <<i>> \o Greedy(rest, boxes, iou_threshold)

\* _C.nms_cpu(boxes, confidences, iou_threshold): the indices kept
nms_cpu(boxes, confidences, iou_threshold) ==
    Greedy(SortDesc(1..Len(boxes), confidences), boxes, iou_threshold)

\* soft NMS: the best remaining box is taken, the scores of the boxes overlapping
\* it decay by (1 - IoU), until topk boxes are taken or no score reaches conf_threshold
RECURSIVE SoftGreedy(_, _, _, _, _, _)
SoftGreedy(S, boxes, score, iou_threshold, topk, conf_threshold) ==
    IF S = {} \/ topk = 0 THEN <<>>
    ELSE LET i == CHOOSE x \in S :
                      \A y \in S : FracLt(score[y], score[x])
                                   \/ (~FracLt(score[x], score[y]) /\ x <= y)
             decayed == [j \in DOMAIN score |->
                            IF j \in S \ {i} /\ Overlaps(boxes[i], boxes[j], iou_threshold)
                            THEN LET u == iou_11(boxes[i], boxes[j])
                                 IN  FracMul(score[j], Frac(u[2] - u[1], u[2]))
                            ELSE score[j]]
         IN  IF FracLt(score[i], conf_threshold) THEN <<>>
             ELSE <<i>> \o SoftGreedy(S \ {i}, boxes, decayed, iou_threshold,
                                      topk - 1, conf_threshold)

\* soft_nms_cpu(boxes, confidences, iou_threshold, topk, conf_threshold)
soft_nms_cpu(boxes, confidences, iou_threshold, topk, conf_threshold) ==
    SoftGreedy(1..Len(boxes), boxes, [n \in 1..Len(boxes) |-> <<confidences[n], 1>>],
               iou_threshold, Min(Len(boxes), topk), conf_threshold)

\* iou_threshold of the constructor (its default)
InferIouThreshold == <<1, 2>>

RECURSIVE Concat(_)
Concat(ss) == IF ss = <<>> THEN <<>> ELSE Head(ss) \o Concat(Tail(ss))

\* boxes, confs, labels of image i (counted from 0) after the loop over the levels
ImageCandidates(i) ==
    LET per == [l \in 1..i_num_levels |->
                   LevelCandidates(i_preds[i + 1][l], anchors_of_level[l],
                                   i_conf_threshold, i_num_levels, i_topk_per_level)]
    IN  IF i_num_levels > 1 THEN Concat(per) ELSE per[1]

\* transform_bboxes(boxes, format=BBox.XYWH, to=BBox.LTRB)
BoxesLTRB(cands) == [n \in 1..Len(cands) |-> XYWH_to_LTRB(cands[n].box)]

Confs(cands) == [n \in 1..Len(cands) |-> cands[n].conf]

\* the indices the configured suppression keeps
Indices(cands) ==
    IF i_nms = "nms"
    THEN nms_cpu(BoxesLTRB(cands), Confs(cands), InferIouThreshold)
    ELSE soft_nms_cpu(BoxesLTRB(cands), Confs(cands), InferIouThreshold, i_topk,
                      <<i_conf_threshold, 100>>)

\* the detections of image i built from the kept indices
Dets(i, cands, indices) ==
    [n \in 1..Len(indices) |->
        [image_id |-> i,
         category_id |-> cands[indices[n]].label + 1,
         bbox |-> LTRB_to_LTWH(BoxesLTRB(cands)[indices[n]]),
         score |-> cands[indices[n]].conf,
         scale_w |-> InferSize[1],
         scale_h |-> InferSize[2]]]

\* one pass of `for i in range(batch_size)`
InferImage ==
    /\ i_pc = "loop"
    /\ i_image < Len(i_preds)
    /\ \E cands \in {ImageCandidates(i_image)} :
         \E indices \in {Indices(cands)} :
            i_image_dets' = Append(i_image_dets, Dets(i_image, cands, indices))
    /\ i_image' = i_image + 1
    /\ UNCHANGED <<i_nms, i_topk, i_topk_per_level, i_conf_threshold, i_num_levels,
                   i_preds, i_pc>>
    /\ UNCHANGED NotInfer

\* return image_dets
InferReturn ==
    /\ i_pc = "loop"
    /\ i_image = Len(i_preds)
    /\ i_pc' = "done"
    /\ UNCHANGED <<i_nms, i_topk, i_topk_per_level, i_conf_threshold, i_num_levels,
                   i_preds, i_image, i_image_dets>>
    /\ UNCHANGED NotInfer

\* predictions of one anchor
AnchorPreds ==
    {[loc |-> Zero4, conf |-> <<70, 10>>],
     [loc |-> Zero4, conf |-> <<5, 5>>],
     [loc |-> <<1, 0, 0, 0>>, conf |-> <<10, 60>>]}

\* predictions of one image on the first n levels
ImagePreds(n) ==
    IF n = 1
    THEN {<<p>> : p \in [1..Len(anchors_of_level[1]) -> AnchorPreds]}
    ELSE {<<p, q>> : p \in [1..Len(anchors_of_level[1]) -> AnchorPreds],
                     q \in [1..Len(anchors_of_level[2]) -> AnchorPreds]}

InferInit ==
    /\ i_nms \in {"nms", "soft_nms"}
    /\ i_topk \in {1, 2}
    /\ i_topk_per_level \in {1, 2}
    /\ i_conf_threshold \in {0, 10, 60}
    /\ i_num_levels \in {1, 2}
    /\ i_preds \in {<<x>> : x \in ImagePreds(i_num_levels)} \cup
                   {<<x, y>> : x \in ImagePreds(i_num_levels), y \in ImagePreds(i_num_levels)}
    /\ i_image = 0
    /\ i_image_dets = <<>>
    /\ i_pc = "loop"

InferIdle ==
    /\ i_nms = "nms"
    /\ i_topk = 1
    /\ i_topk_per_level = 1
    /\ i_conf_threshold = 0
    /\ i_num_levels = 1
    /\ i_preds = <<>>
    /\ i_image = 0
    /\ i_image_dets = <<>>
    /\ i_pc = "idle"

InferNext == InferImage \/ InferReturn

----------------------------------------------------------------------------
(* Encoding a box against anchors and decoding it again *)

\* a whole number as a fraction
OfInt(n) == <<n, 1>>

\* target_to_coords with the centre scaled by the anchor centre and shifted by its size
target_to_coords_CentreSizeSwapped(loc_t, anchors) ==
    [n \in 1..Len(loc_t) |->
        <<FracAdd(FracMul(loc_t[n][1], OfInt(anchors[n][1])), OfInt(anchors[n][3])),
          FracAdd(FracMul(loc_t[n][2], OfInt(anchors[n][2])), OfInt(anchors[n][4])),
          FracMul(Exp2(loc_t[n][3]), OfInt(anchors[n][3])),
          FracMul(Exp2(loc_t[n][4]), OfInt(anchors[n][4]))>>]

\* horch target_to_coords(loc_t, anchors): loc_t[..., :2].mul_(anchors[:, 2:]).add_(anchors[:, :2]);
\* loc_t[..., 2:].exp_().mul_(anchors[:, 2:])
target_to_coords(loc_t, anchors) ==
    [n \in 1..Len(loc_t) |->
        <<FracAdd(FracMul(loc_t[n][1], OfInt(anchors[n][3])), OfInt(anchors[n][1])),
          FracAdd(FracMul(loc_t[n][2], OfInt(anchors[n][4])), OfInt(anchors[n][2])),
          FracMul(Exp2(loc_t[n][3]), OfInt(anchors[n][3])),
          FracMul(Exp2(loc_t[n][4]), OfInt(anchors[n][4]))>>]

\* largest centre coordinate of an encoded box
MaxCoord == 2

\* boxes (x, y, w, h) with w, h > 0; sizes are powers of two, as the anchors' are
CoordBoxes == {<<x, y, w, h>> : x \in 0..MaxCoord, y \in 0..MaxCoord, w \in {1, 2, 4}, h \in {1, 2}}

CoordAnchors == {<<x, 1, w, h>> : x \in {0, 3}, w \in {1, 2, 4}, h \in {2, 4}}

\* coords_to_target(gt_box, anchors) of horch or of hutil: one target per anchor
CoordsEncode ==
    /\ k_pc = "start"
    /\ k_target' = [n \in 1..Len(k_anchors) |->
                       IF k_func = "horch" THEN coords_to_target(k_box, k_anchors[n])
                       ELSE hutil_coords_to_target(k_box, k_anchors[n])]
    /\ k_pc' = "encoded"
    /\ UNCHANGED <<k_func, k_box, k_anchors, k_coords>>
    /\ UNCHANGED NotCoords

\* target_to_coords(loc_t, anchors) on the targets: loc_t is changed in place
\* and returned, so the caller's targets hold the decoded boxes afterwards
CoordsDecode ==
    /\ k_pc = "encoded"
    /\ k_coords' = target_to_coords(k_target, k_anchors)
    /\ k_target' = k_coords'
    /\ k_pc' = "decoded"
    /\ UNCHANGED <<k_func, k_box, k_anchors>>
    /\ UNCHANGED NotCoords

CoordsInit ==
    /\ k_func \in {"horch", "hutil"}
    /\ k_box \in CoordBoxes
    /\ k_anchors \in SeqsUpTo(CoordAnchors, 2) \ {<<>>}
    /\ k_target = <<>>
    /\ k_coords = <<>>
    /\ k_pc = "start"

CoordsIdle ==
    /\ k_func = "horch"
    /\ k_box = Zero4
    /\ k_anchors = <<>>
    /\ k_target = <<>>
    /\ k_coords = <<>>
    /\ k_pc = "idle"

CoordsNext == CoordsEncode \/ CoordsDecode

----------------------------------------------------------------------------
(* hutil mAP, AP, average_precision *)

(* A detection or ground truth is [image_id, category_id, bbox], bbox in LTRB. *)

FracSub(p, q) == FracAdd(p, <<0 - q[1], q[2]>>)

FracMax(p, q) == IF FracLt(p, q) THEN q ELSE p

RECURSIVE FracSum(_)
FracSum(s) == IF s = <<>> THEN <<0, 1>> ELSE FracAdd(Head(s), FracSum(Tail(s)))

\* the value of 0/0
NaN == <<0, 0>>

\* np.mean of a list of numbers
np_mean(s) == IF s = <<>> THEN NaN ELSE FracDiv(FracSum(s), <<Len(s), 1>>)

\* np.cumsum of a list of whole numbers
RECURSIVE np_cumsum(_)
np_cumsum(s) ==
    IF s = <<>> THEN <<>>
    ELSE LET front == np_cumsum(SubSeq(s, 1, Len(s) - 1))
         IN  Append(front, (IF front = <<>> THEN 0 ELSE front[Len(front)]) + s[Len(s)])

\* groupby(key, seq).keys(): the distinct keys in order of first occurrence
RECURSIVE Keys(_, _)
Keys(seq, key) ==
    IF seq = <<>> THEN <<>>
    ELSE <<seq[1][key]>> \o SelectSeq(Keys(Tail(seq), key), LAMBDA k : k /= seq[1][key])

\* groupby(key, seq).get(k, []): the elements with that key, in order
Group(seq, key, k) == SelectSeq(seq, LAMBDA b : b[key] = k)

\* Envelope leaving mpre as it is
Envelope_Skipped(mpre, i) == mpre

\* the loop of average_precision that makes mpre non-increasing, from position i down
RECURSIVE Envelope(_, _)
Envelope(mpre, i) ==
    IF i < 2 THEN mpre
    ELSE Envelope([mpre EXCEPT ![i - 1] = FracMax(mpre[i - 1], mpre[i])], i - 1)

\* ap += (mrec[i] - mrec[i - 1]) * mpre[i] over the positions from i on where recall changes
RECURSIVE StepSum(_, _, _)
StepSum(mrec, mpre, i) ==
    IF i > Len(mrec) THEN <<0, 1>>
    ELSE IF mrec[i] /= mrec[i - 1]
    THEN FracAdd(FracMul(FracSub(mrec[i], mrec[i - 1]), mpre[i]), StepSum(mrec, mpre, i + 1))
    ELSE StepSum(mrec, mpre, i + 1)

\* mpre of average_precision after its first loop
Mpre(precision) ==
    Envelope(<<<<0, 1>>>> \o precision \o <<<<0, 1>>>>, Len(precision) + 2)

\* average_precision(recall, precision)[0]
average_precision(recall, precision) ==
    LET mrec == <<<<0, 1>>>> \o recall \o <<<<1, 1>>>>
        mpre == <<<<0, 1>>>> \o precision \o <<<<0, 1>>>>
    IN  StepSum(mrec, Envelope(mpre, Len(mpre)), 2)

\* ious and max(enumerate(ious), key=...) of AP: <<iou_max, j_max>>, the first maximum
JMax(dt, gts) == TensorMax([j \in 1..Len(gts) |-> iou_11(dt.bbox, gts[j].bbox)])

\* Credited without the test on seen
Credited_SeenIgnored(dt, gts, iou_threshold, seen) ==
    FracLt(iou_threshold, JMax(dt, gts)[1])

\* dt becomes a true positive: iou_max > iou_threshold and not seen[j_max]
Credited(dt, gts, iou_threshold, seen) ==
    FracLt(iou_threshold, JMax(dt, gts)[1]) /\ JMax(dt, gts)[2] \notin seen

\* TP of AP after `for i, dt in enumerate(dts)`, from detection i on, seen the
\* ground truths matched so far
RECURSIVE TruePositives(_, _, _, _, _)
TruePositives(dts, gts, iou_threshold, i, seen) ==
    IF i > Len(dts) THEN <<>>
    ELSE <<IF Credited(dts[i], gts, iou_threshold, seen) THEN 1 ELSE 0>> \o
         TruePositives(dts, gts, iou_threshold, i + 1,
                       IF Credited(dts[i], gts, iou_threshold, seen)
                       THEN seen \cup {JMax(dts[i], gts)[2]} ELSE seen)

\* recall = acc_tp / n_positive
Recall(TP, n_positive) == [i \in 1..Len(TP) |-> Frac(np_cumsum(TP)[i], n_positive)]

\* FP = 1 - TP; precision = acc_tp / (acc_fp + acc_tp)
Precision(TP) ==
    LET FP == [i \in 1..Len(TP) |-> 1 - TP[i]]
    IN  [i \in 1..Len(TP) |-> Frac(np_cumsum(TP)[i], np_cumsum(FP)[i] + np_cumsum(TP)[i])]

\* AP(dts, gts, iou_threshold), gts not empty
AP(dts, gts, iou_threshold) ==
    LET TP == TruePositives(dts, gts, iou_threshold, 1, {})
    IN  average_precision(Recall(TP, Len(gts)), Precision(TP))

\* aps of one image, leaving out the classes without a detection
ClassAps_SkipUndetected(i_dts, i_gts, iou_threshold) ==
    LET classes == SelectSeq(Keys(i_gts, "category_id"),
                             LAMBDA c : Group(i_dts, "category_id", c) /= <<>>)
    IN  [k \in 1..Len(classes) |->
            AP(Group(i_dts, "category_id", classes[k]),
               Group(i_gts, "category_id", classes[k]), iou_threshold)]

\* aps of one image after `for c in classes`
ClassAps(i_dts, i_gts, iou_threshold) ==
    LET classes == Keys(i_gts, "category_id")
    IN  [k \in 1..Len(classes) |->
            IF Group(i_dts, "category_id", classes[k]) = <<>>
            THEN <<0, 1>>
            ELSE AP(Group(i_dts, "category_id", classes[k]),
                    Group(i_gts, "category_id", classes[k]), iou_threshold)]

\* np.mean(aps) of image i
ImageScore(detections, ground_truths, i, iou_threshold) ==
    np_mean(ClassAps(Group(detections, "image_id", i), Group(ground_truths, "image_id", i),
                     iou_threshold))

\* mAP(detections, ground_truths, iou_threshold)
mAP(detections, ground_truths, iou_threshold) ==
    LET image_ids == Keys(ground_truths, "image_id")
    IN  np_mean([k \in 1..Len(image_ids) |->
                    ImageScore(detections, ground_truths, image_ids[k], iou_threshold)])

\* iou_threshold=.5
MapIouThreshold == <<1, 2>>

\* one pass of `for i in image_ids`
MapImage ==
    /\ p_pc = "loop"
    /\ p_i <= Len(Keys(p_gts, "image_id"))
    /\ \E image_ids \in {Keys(p_gts, "image_id")} :
         \E score \in {ImageScore(p_dets, p_gts, image_ids[p_i], MapIouThreshold)} :
            p_maps' = Append(p_maps, score)
    /\ p_i' = p_i + 1
    /\ UNCHANGED <<p_dets, p_gts, p_result, p_pc>>
    /\ UNCHANGED NotMap

\* return np.mean(maps)
MapReturn ==
    /\ p_pc = "loop"
    /\ p_i > Len(Keys(p_gts, "image_id"))
    /\ p_result' = np_mean(p_maps)
    /\ p_pc' = "done"
    /\ UNCHANGED <<p_dets, p_gts, p_i, p_maps>>
    /\ UNCHANGED NotMap

\* longest list of detections; longest list of ground truths
MaxDets == 2

MaxGts == 2

BoxA == <<0, 0, 2, 2>>

\* half of BoxA: IoU 1/2 with it, not above the threshold
BoxHalfA == <<0, 0, 2, 1>>

Detections == {[image_id |-> i, category_id |-> c, bbox |-> b] :
                  i \in {0, 1}, c \in {1, 2}, b \in {BoxA, BoxHalfA}}

GroundTruths == {[image_id |-> i, category_id |-> c, bbox |-> BoxA] : i \in {0, 1}, c \in {1, 2}}

MapInit ==
    /\ p_dets \in SeqsUpTo(Detections, MaxDets)
    /\ p_gts \in SeqsUpTo(GroundTruths, MaxGts)
    /\ p_i = 1
    /\ p_maps = <<>>
    /\ p_result = NaN
    /\ p_pc = "loop"

MapIdle ==
    /\ p_dets = <<>>
    /\ p_gts = <<>>
    /\ p_i = 1
    /\ p_maps = <<>>
    /\ p_result = NaN
    /\ p_pc = "idle"

MapNext == MapImage \/ MapReturn

----------------------------------------------------------------------------
(* horch FPN, FPN2, stacked_fpn *)

\* [x] * n
Repeat(x, n) == [k \in 1..n |-> x]

\* FPN.__init__: a lateral conv over the last level, a top-down block per other level
FPN(in_channels_list, f_channels, lite, upsample) ==
    [kind |-> "FPN",
     in_channels_list |-> in_channels_list,
     f_channels |-> f_channels,
     lite |-> lite,
     lat |-> <<in_channels_list[Len(in_channels_list)], f_channels>>,
     topdowns |-> [k \in 1..(Len(in_channels_list) - 1) |->
                      [kind |-> IF upsample = "deconv" THEN "DeconvTopDown" ELSE "TopDown",
                       in_channels |-> in_channels_list[k],
                       f_channels |-> f_channels]],
     out_channels |-> Repeat(f_channels, Len(in_channels_list))]

\* FPN2.__init__ without its second assertion
FPN2_SameOnly(in_channels_list, f_channels, lite) ==
    IF Cardinality(Range(in_channels_list)) /= 1
    THEN Raise("AssertionError")
    ELSE [kind |-> "FPN2",
          in_channels_list |-> in_channels_list,
          f_channels |-> f_channels,
          lite |-> lite,
          bottomups |-> [k \in 1..(Len(in_channels_list) - 1) |->
                            [kind |-> "BottomUp", f_channels |-> f_channels]],
          out_channels |-> Repeat(f_channels, Len(in_channels_list))]

\* FPN2.__init__: the two assertions, then a bottom-up block per level but the first
FPN2(in_channels_list, f_channels, lite) ==
    IF Cardinality(Range(in_channels_list)) /= 1
    THEN Raise("AssertionError")
    ELSE IF in_channels_list[1] /= f_channels
    THEN Raise("AssertionError")
    ELSE [kind |-> "FPN2",
          in_channels_list |-> in_channels_list,
          f_channels |-> f_channels,
          lite |-> lite,
          bottomups |-> [k \in 1..(Len(in_channels_list) - 1) |->
                            [kind |-> "BottomUp", f_channels |-> f_channels]],
          out_channels |-> Repeat(f_channels, Len(in_channels_list))]

\* the block of pass i with the two kinds exchanged
Block_KindsExchanged(i, num_levels, f_channels, lite, upsample) ==
    IF i % 2 = 0
    THEN FPN2(Repeat(f_channels, num_levels), f_channels, lite)
    ELSE FPN(Repeat(f_channels, num_levels), f_channels, lite, upsample)

\* the block stacked_fpn builds in pass i of `for i in range(1, num_stacked)`
Block(i, num_levels, f_channels, lite, upsample) ==
    IF i % 2 = 0
    THEN FPN(Repeat(f_channels, num_levels), f_channels, lite, upsample)
    ELSE FPN2(Repeat(f_channels, num_levels), f_channels, lite)

\* the assertion on num_stacked, num_levels and the first block
StackStart ==
    /\ s_pc = "start"
    /\ IF s_num_stacked >= 2
       THEN /\ s_layers' = <<FPN(s_in_channels_list, s_f_channels, s_lite, s_upsample)>>
            /\ s_i' = 1
            /\ s_pc' = "loop"
            /\ UNCHANGED s_result
       ELSE /\ s_result' = Raise("AssertionError")
            /\ s_pc' = "done"
            /\ UNCHANGED <<s_layers, s_i>>
    /\ UNCHANGED <<s_num_stacked, s_in_channels_list, s_f_channels, s_lite, s_upsample>>
    /\ UNCHANGED NotStack

\* one pass of `for i in range(1, num_stacked)`
StackAppend ==
    /\ s_pc = "loop"
    /\ s_i < s_num_stacked
    /\ \E block \in {Block(s_i, Len(s_in_channels_list), s_f_channels, s_lite, s_upsample)} :
          IF block.kind = "raise"
          THEN /\ s_result' = block
               /\ s_pc' = "done"
               /\ UNCHANGED <<s_layers, s_i>>
          ELSE /\ s_layers' = Append(s_layers, block)
               /\ s_i' = s_i + 1
               /\ UNCHANGED <<s_result, s_pc>>
    /\ UNCHANGED <<s_num_stacked, s_in_channels_list, s_f_channels, s_lite, s_upsample>>
    /\ UNCHANGED NotStack

\* m = Sequential(*layers); m.out_channels = [f_channels] * len(in_channels_list); return m
StackReturn ==
    /\ s_pc = "loop"
    /\ s_i >= s_num_stacked
    /\ s_result' = [kind |-> "Sequential",
                    layers |-> s_layers,
                    out_channels |-> Repeat(s_f_channels, Len(s_in_channels_list))]
    /\ s_pc' = "done"
    /\ UNCHANGED <<s_num_stacked, s_in_channels_list, s_f_channels, s_lite, s_upsample,
                   s_layers, s_i>>
    /\ UNCHANGED NotStack

\* largest num_stacked; most levels
MaxStacked == 4

MaxLevels == 3

Channels == {64, 128}

StackInit ==
    /\ s_num_stacked \in 0..MaxStacked
    /\ s_in_channels_list \in SeqsUpTo(Channels, MaxLevels) \ {<<>>}
    /\ s_f_channels \in Channels
    /\ s_lite \in BOOLEAN
    /\ s_upsample \in {"interpolate", "deconv"}
    /\ s_layers = <<>>
    /\ s_i = 0
    /\ s_result = [kind |-> None]
    /\ s_pc = "start"

StackIdle ==
    /\ s_num_stacked = 0
    /\ s_in_channels_list = <<>>
    /\ s_f_channels = 64
    /\ s_lite = FALSE
    /\ s_upsample = "interpolate"
    /\ s_layers = <<>>
    /\ s_i = 0
    /\ s_result = [kind |-> None]
    /\ s_pc = "idle"

StackNext == StackStart \/ StackAppend \/ StackReturn

----------------------------------------------------------------------------
(* horch FPN.forward and FPN2.forward *)

(* A feature map is a term [op, index, args]: input number index, or the output  *)
(* of the module's block number index (0 for FPN's lat) applied to args.         *)

Input(i) == [op |-> "input", index |-> i, args |-> <<>>]

Applied(op, index, args) == [op |-> op, index |-> index, args |-> args]

\* FPN(...) or FPN2(...): the module, or the error of the constructor
PyramidConstruct ==
    /\ w_pc = "start"
    /\ w_module' =
          IF w_kind = "FPN2" THEN FPN2(w_in_channels_list, w_f_channels, w_lite)
          ELSE IF w_in_channels_list = <<>> THEN Raise("IndexError")
          ELSE FPN(w_in_channels_list, w_f_channels, w_lite, w_upsample)
    /\ w_pc' = IF w_module'.kind = "raise" THEN "done" ELSE "built"
    /\ UNCHANGED <<w_kind, w_in_channels_list, w_f_channels, w_lite, w_upsample,
                   w_num_inputs, w_feats, w_j, w_result>>
    /\ UNCHANGED NotPyramid

\* forward up to its loop: ps = (self.lat(cs[-1]),) in FPN, ns = [ps[0]] in FPN2
PyramidForwardStart ==
    /\ w_pc = "built"
    /\ IF w_num_inputs = 0
       THEN /\ w_result' = Raise("IndexError")
            /\ w_pc' = "done"
            /\ UNCHANGED <<w_feats, w_j>>
       ELSE /\ w_feats' = IF w_kind = "FPN"
                          THEN <<Applied("lat", 0, <<Input(w_num_inputs)>>)>>
                          ELSE <<Input(1)>>
            /\ w_j' = 1
            /\ w_pc' = "loop"
            /\ UNCHANGED w_result
    /\ UNCHANGED <<w_kind, w_in_channels_list, w_f_channels, w_lite, w_upsample,
                   w_num_inputs, w_module>>
    /\ UNCHANGED NotPyramid

\* the blocks the loop zips the inputs with
PyramidBlocks == IF w_kind = "FPN" THEN w_module.topdowns ELSE w_module.bottomups

\* passes of the zip loop: the shorter of cs[:-1] (ps[1:]) and the blocks
ZipPasses == Min(w_num_inputs - 1, Len(PyramidBlocks))

\* pass j of FPN.forward with the new map put after the others
TopDownPass_Appended(feats, j, num_inputs, topdowns) ==
    feats \o <<Applied(topdowns[Len(topdowns) + 1 - j].kind, Len(topdowns) + 1 - j,
                       <<Input(num_inputs - j), feats[1]>>)>>

\* pass j of FPN.forward: zip(reversed(cs[:-1]), reversed(self.topdowns));
\* p = topdown(c, ps[0]); ps = (p,) + ps
TopDownPass(feats, j, num_inputs, topdowns) ==
    <<Applied(topdowns[Len(topdowns) + 1 - j].kind, Len(topdowns) + 1 - j,
              <<Input(num_inputs - j), feats[1]>>)>> \o feats

\* pass j of FPN2.forward: zip(ps[1:], self.bottomups);
\* n = bottomup(p, ns[-1]); ns.append(n)
BottomUpPass(feats, j, bottomups) ==
    Append(feats, Applied(bottomups[j].kind, j, <<Input(j + 1), feats[Len(feats)]>>))

PyramidForwardStep ==
    /\ w_pc = "loop"
    /\ w_j <= ZipPasses
    /\ w_feats' = IF w_kind = "FPN"
                  THEN TopDownPass(w_feats, w_j, w_num_inputs, w_module.topdowns)
                  ELSE BottomUpPass(w_feats, w_j, w_module.bottomups)
    /\ w_j' = w_j + 1
    /\ UNCHANGED <<w_kind, w_in_channels_list, w_f_channels, w_lite, w_upsample,
                   w_num_inputs, w_module, w_result, w_pc>>
    /\ UNCHANGED NotPyramid

\* return ps / return tuple(ns)
PyramidForwardReturn ==
    /\ w_pc = "loop"
    /\ w_j > ZipPasses
    /\ w_result' = Return(w_feats)
    /\ w_pc' = "done"
    /\ UNCHANGED <<w_kind, w_in_channels_list, w_f_channels, w_lite, w_upsample,
                   w_num_inputs, w_module, w_feats, w_j>>
    /\ UNCHANGED NotPyramid

PyramidInit ==
    /\ w_kind \in {"FPN", "FPN2"}
    /\ w_in_channels_list \in SeqsUpTo(Channels, MaxLevels)
    /\ w_f_channels \in Channels
    /\ w_lite \in BOOLEAN
    /\ w_upsample \in {"interpolate", "deconv"}
    /\ w_num_inputs \in 0..MaxLevels
    /\ w_module = [kind |-> None]
    /\ w_feats = <<>>
    /\ w_j = 0
    /\ w_result = [kind |-> None]
    /\ w_pc = "start"

PyramidIdle ==
    /\ w_kind = "FPN"
    /\ w_in_channels_list = <<>>
    /\ w_f_channels = 64
    /\ w_lite = FALSE
    /\ w_upsample = "interpolate"
    /\ w_num_inputs = 0
    /\ w_module = [kind |-> None]
    /\ w_feats = <<>>
    /\ w_j = 0
    /\ w_result = [kind |-> None]
    /\ w_pc = "idle"

PyramidNext ==
    PyramidConstruct \/ PyramidForwardStart \/ PyramidForwardStep \/ PyramidForwardReturn

----------------------------------------------------------------------------
(* hutil segmentation ToTensor.__call__ (the target) *)

\* number of values of a pixel of np.array(seg) for an 8-bit image (dtype uint8)
Uint8Values == 256

\* most pixels of a segmentation image
MaxPixels == 2

PixelValues == {0, 1, 254, 255}

NumClasses == {1, 20, 253, 254, 255, 256}

\* target = np.array(seg)
ToTensorArray ==
    /\ t_pc = "start"
    /\ t_target' = t_seg
    /\ t_pc' = "array"
    /\ UNCHANGED <<t_num_classes, t_seg, t_result>>
    /\ UNCHANGED NotSeg

\* target[target == 255] = self.num_classes + 1, the array being uint8: a value
\* that does not fit is stored modulo 256 or refused with OverflowError,
\* depending on the numpy in use
ToTensorAssign ==
    /\ t_pc = "array"
    /\ \/ /\ t_target' = [i \in 1..Len(t_target) |->
                             IF t_target[i] = 255
                             THEN (t_num_classes + 1) % Uint8Values
                             ELSE t_target[i]]
          /\ t_pc' = "assigned"
          /\ UNCHANGED t_result
       \/ /\ t_num_classes + 1 >= Uint8Values
          /\ t_result' = Raise("OverflowError")
          /\ t_pc' = "done"
          /\ UNCHANGED t_target
    /\ UNCHANGED <<t_num_classes, t_seg>>
    /\ UNCHANGED NotSeg

\* target = torch.from_numpy(target).long(); return input, target
ToTensorReturn ==
    /\ t_pc = "assigned"
    /\ t_result' = Return(t_target)
    /\ t_pc' = "done"
    /\ UNCHANGED <<t_num_classes, t_seg, t_target>>
    /\ UNCHANGED NotSeg

SegInit ==
    /\ t_num_classes \in NumClasses
    /\ t_seg \in SeqsUpTo(PixelValues, MaxPixels) \ {<<>>}
    /\ t_target = <<>>
    /\ t_result = [kind |-> None]
    /\ t_pc = "start"

SegIdle ==
    /\ t_num_classes = 1
    /\ t_seg = <<>>
    /\ t_target = <<>>
    /\ t_result = [kind |-> None]
    /\ t_pc = "idle"

SegNext == ToTensorArray \/ ToTensorAssign \/ ToTensorReturn

----------------------------------------------------------------------------
(* hutil AP, called on the detections and ground truths of one class *)

BoxB == <<4, 0, 6, 2>>

ApDetections == {[bbox |-> b] : b \in {BoxA, BoxHalfA, BoxB}}

ApGroundTruths == {[bbox |-> b] : b \in {BoxA, BoxB}}

\* one pass of `for i, dt in enumerate(dts)`
ApDetection ==
    /\ a_pc = "loop"
    /\ a_i <= Len(a_dts)
    /\ \E hit \in {Credited(a_dts[a_i], a_gts, MapIouThreshold, a_seen)} :
          /\ a_TP' = Append(a_TP, IF hit THEN 1 ELSE 0)
          /\ a_seen' = IF hit THEN a_seen \cup {JMax(a_dts[a_i], a_gts)[2]} ELSE a_seen
    /\ a_i' = a_i + 1
    /\ UNCHANGED <<a_dts, a_gts, a_mpre, a_ap, a_pc>>
    /\ UNCHANGED NotAp

\* FP, the cumulated sums, recall, precision, average_precision(...)[0]
ApReturn ==
    /\ a_pc = "loop"
    /\ a_i > Len(a_dts)
    /\ a_mpre' = Mpre(Precision(a_TP))
    /\ a_ap' = average_precision(Recall(a_TP, Len(a_gts)), Precision(a_TP))
    /\ a_pc' = "done"
    /\ UNCHANGED <<a_dts, a_gts, a_i, a_TP, a_seen>>
    /\ UNCHANGED NotAp

ApInit ==
    /\ a_dts \in SeqsUpTo(ApDetections, MaxDets)
    /\ a_gts \in SeqsUpTo(ApGroundTruths, MaxGts) \ {<<>>}
    /\ a_i = 1
    /\ a_TP = <<>>
    /\ a_seen = {}
    /\ a_mpre = <<>>
    /\ a_ap = NaN
    /\ a_pc = "loop"

ApIdle ==
    /\ a_dts = <<>>
    /\ a_gts = <<>>
    /\ a_i = 1
    /\ a_TP = <<>>
    /\ a_seen = {}
    /\ a_mpre = <<>>
    /\ a_ap = NaN
    /\ a_pc = "idle"

ApNext == ApDetection \/ ApReturn

----------------------------------------------------------------------------
(* hutil get_locations *)

RECURSIVE Pow2(_)
Pow2(k) == IF k = 0 THEN 1 ELSE 2 * Pow2(k - 1)

\* the next level by plain halving
Halve_Floor(l) == l \div 2

\* lx = (lx - 1) // 2 + 1
Halve(l) == (l - 1) \div 2 + 1

\* locations[-n:] of a list (n > 0): the last n entries, all of them if there are fewer
LastN(list, n) == SubSeq(list, Max(1, Len(list) - n + 1), Len(list))

\* one pass of `for _ in range(num_levels)`, num_levels = int(np.log2(strides[-1]))
LocationsStep ==
    /\ g_pc = "loop"
    /\ g_n < Log2(g_strides[Len(g_strides)], 1)
    /\ g_lx' = Halve(g_lx)
    /\ g_ly' = Halve(g_ly)
    /\ g_locations' = Append(g_locations, <<g_lx', g_ly'>>)
    /\ g_n' = g_n + 1
    /\ UNCHANGED <<g_size, g_strides, g_result, g_pc>>
    /\ UNCHANGED NotLocations

\* return locations[-len(strides):]
LocationsReturn ==
    /\ g_pc = "loop"
    /\ g_n >= Log2(g_strides[Len(g_strides)], 1)
    /\ g_result' = LastN(g_locations, Len(g_strides))
    /\ g_pc' = "done"
    /\ UNCHANGED <<g_size, g_strides, g_lx, g_ly, g_locations, g_n>>
    /\ UNCHANGED NotLocations

\* largest side of the input; largest log2 of a stride
MaxSide == 6

MaxLog == 3

\* n consecutive powers of two ending at 2^k
Strides(k, n) == [i \in 1..n |-> Pow2(k - n + i)]

LocationsInit ==
    /\ g_size \in (1..MaxSide) \X (1..MaxSide)
    /\ g_strides \in UNION {{Strides(k, n) : n \in 1..(k + 1)} : k \in 0..MaxLog}
    /\ g_lx = g_size[1]
    /\ g_ly = g_size[2]
    /\ g_locations = <<g_size>>
    /\ g_n = 0
    /\ g_result = <<>>
    /\ g_pc = "loop"

LocationsIdle ==
    /\ g_size = <<1, 1>>
    /\ g_strides = <<>>
    /\ g_lx = 1
    /\ g_ly = 1
    /\ g_locations = <<>>
    /\ g_n = 0
    /\ g_result = <<>>
    /\ g_pc = "idle"

LocationsNext == LocationsStep \/ LocationsReturn

----------------------------------------------------------------------------
(* horch sample(t, n) *)

\* most elements of t
MaxElems == 3

\* largest n
MaxSample == 4

\* values of the elements of t
SampleValues == {4, 7}

\* torch.randperm(k): the orders of the k positions (positions count from 1 here)
Randperm(k) == {q \in [1..k -> 1..k] : \A i, j \in 1..k : i /= j => q[i] /= q[j]}

\* torch.randint(high, size=(n,)): n positions below high, each drawn on its own
Randint(high, n) == [1..n -> 1..high]

\* if len(t) >= n: indices = torch.randperm(len(t))[:n]
SampleRandperm ==
    /\ r_pc = "call"
    /\ Len(r_t) >= r_n
    /\ \E q \in Randperm(Len(r_t)) : r_indices' = SubSeq(q, 1, r_n)
    /\ r_pc' = "indices"
    /\ UNCHANGED <<r_t, r_n, r_result>>
    /\ UNCHANGED NotSample

\* else: indices = torch.randint(len(t), size=(n,)); torch refuses an empty
\* range [0, 0) with RuntimeError
SampleRandint ==
    /\ r_pc = "call"
    /\ Len(r_t) < r_n
    /\ \/ /\ Len(r_t) = 0
          /\ r_result' = Raise("RuntimeError")
          /\ r_pc' = "done"
          /\ UNCHANGED r_indices
       \/ /\ Len(r_t) > 0
          /\ r_indices' \in Randint(Len(r_t), r_n)
          /\ r_pc' = "indices"
          /\ UNCHANGED r_result
    /\ UNCHANGED <<r_t, r_n>>
    /\ UNCHANGED NotSample

\* return t[indices]
SampleReturn ==
    /\ r_pc = "indices"
    /\ r_result' = Return([i \in 1..Len(r_indices) |-> r_t[r_indices[i]]])
    /\ r_pc' = "done"
    /\ UNCHANGED <<r_t, r_n, r_indices>>
    /\ UNCHANGED NotSample

SampleInit ==
    /\ r_t \in SeqsUpTo(SampleValues, MaxElems)
    /\ r_n \in 0..MaxSample
    /\ r_indices = <<>>
    /\ r_result = [kind |-> None]
    /\ r_pc = "call"

SampleIdle ==
    /\ r_t = <<>>
    /\ r_n = 0
    /\ r_indices = <<>>
    /\ r_result = [kind |-> None]
    /\ r_pc = "idle"

SampleNext == SampleRandperm \/ SampleRandint \/ SampleReturn

----------------------------------------------------------------------------
(* Specifications *)

InitMatching == MatchInit /\ HorchIdle /\ CallIdle /\ LossIdle /\ InferIdle /\ CoordsIdle /\ MapIdle /\ StackIdle /\ PyramidIdle /\ SegIdle /\ ApIdle /\ LocationsIdle /\ SampleIdle

SpecMatching == InitMatching /\ [][MatchNext]_vars

InitHorch == HorchInit /\ MatchIdle /\ CallIdle /\ LossIdle /\ InferIdle /\ CoordsIdle /\ MapIdle /\ StackIdle /\ PyramidIdle /\ SegIdle /\ ApIdle /\ LocationsIdle /\ SampleIdle

SpecHorch == InitHorch /\ [][HorchNext]_vars

InitCall == CallInit /\ MatchIdle /\ HorchIdle /\ LossIdle /\ InferIdle /\ CoordsIdle /\ MapIdle /\ StackIdle /\ PyramidIdle /\ SegIdle /\ ApIdle /\ LocationsIdle /\ SampleIdle

SpecCall == InitCall /\ [][CallNext]_vars

InitLoss == LossInit /\ MatchIdle /\ HorchIdle /\ CallIdle /\ InferIdle /\ CoordsIdle /\ MapIdle /\ StackIdle /\ PyramidIdle /\ SegIdle /\ ApIdle /\ LocationsIdle /\ SampleIdle

SpecLoss == InitLoss /\ [][LossNext]_vars

InitInfer == InferInit /\ MatchIdle /\ HorchIdle /\ CallIdle /\ LossIdle /\ CoordsIdle /\ MapIdle /\ StackIdle /\ PyramidIdle /\ SegIdle /\ ApIdle /\ LocationsIdle /\ SampleIdle

SpecInfer == InitInfer /\ [][InferNext]_vars

InitCoords == CoordsInit /\ MatchIdle /\ HorchIdle /\ CallIdle /\ LossIdle /\ InferIdle /\ MapIdle /\ StackIdle /\ PyramidIdle /\ SegIdle /\ ApIdle /\ LocationsIdle /\ SampleIdle

SpecCoords == InitCoords /\ [][CoordsNext]_vars

InitMap == MapInit /\ MatchIdle /\ HorchIdle /\ CallIdle /\ LossIdle /\ InferIdle /\ CoordsIdle /\ StackIdle /\ PyramidIdle /\ SegIdle /\ ApIdle /\ LocationsIdle /\ SampleIdle

SpecMap == InitMap /\ [][MapNext]_vars

InitStack == StackInit /\ MatchIdle /\ HorchIdle /\ CallIdle /\ LossIdle /\ InferIdle /\ CoordsIdle /\ MapIdle /\ PyramidIdle /\ SegIdle /\ ApIdle /\ LocationsIdle /\ SampleIdle

SpecStack == InitStack /\ [][StackNext]_vars

InitPyramid == PyramidInit /\ MatchIdle /\ HorchIdle /\ CallIdle /\ LossIdle /\ InferIdle /\ CoordsIdle /\ MapIdle /\ StackIdle /\ SegIdle /\ ApIdle /\ LocationsIdle /\ SampleIdle

SpecPyramid == InitPyramid /\ [][PyramidNext]_vars

InitSeg == SegInit /\ MatchIdle /\ HorchIdle /\ CallIdle /\ LossIdle /\ InferIdle /\ CoordsIdle /\ MapIdle /\ StackIdle /\ PyramidIdle /\ ApIdle /\ LocationsIdle /\ SampleIdle

SpecSeg == InitSeg /\ [][SegNext]_vars

InitAp == ApInit /\ MatchIdle /\ HorchIdle /\ CallIdle /\ LossIdle /\ InferIdle /\ CoordsIdle /\ MapIdle /\ StackIdle /\ PyramidIdle /\ SegIdle /\ LocationsIdle /\ SampleIdle

SpecAp == InitAp /\ [][ApNext]_vars

InitLocations == LocationsInit /\ MatchIdle /\ HorchIdle /\ CallIdle /\ LossIdle /\ InferIdle /\ CoordsIdle /\ MapIdle /\ StackIdle /\ PyramidIdle /\ SegIdle /\ ApIdle /\ SampleIdle

SpecLocations == InitLocations /\ [][LocationsNext]_vars

InitSample == SampleInit /\ MatchIdle /\ HorchIdle /\ CallIdle /\ LossIdle /\ InferIdle /\ CoordsIdle /\ MapIdle /\ StackIdle /\ PyramidIdle /\ SegIdle /\ ApIdle /\ LocationsIdle

SpecSample == InitSample /\ [][SampleNext]_vars

----------------------------------------------------------------------------
(* Claims about hutil MultiLevelAnchorMatching *)

AllAnchors == {<<l, a>> : l \in Levels, a \in 1..2} \cap
              {x \in Levels \X (1..2) : x[2] <= Len(anchors_of_level[x[1]])}

\* the IoU of annotation j of the call with anchor x, from the boxes alone
AnnIou(j, x) ==
    iou_11(XYWH_to_LTRB(LTWH_to_XYWH(m_anns[j].bbox)),
           XYWH_to_LTRB(anchors_of_level[x[1]][x[2]]))

\* x comes before y in (level, index) order
Before(x, y) == x[1] < y[1] \/ (x[1] = y[1] /\ x[2] < y[2])

\* the anchor with the highest IoU with annotation j, the first of them on a tie
Best(j) ==
    CHOOSE x \in AllAnchors :
        \A y \in AllAnchors :
            /\ FracLe(AnnIou(j, y), AnnIou(j, x))
            /\ (AnnIou(j, y)[1] * AnnIou(j, x)[2] = AnnIou(j, x)[1] * AnnIou(j, y)[2]
                   => (y = x \/ Before(x, y)))

\* annotation j exceeds pos_thresh on anchor x
Exceeds(j, x) == Truthy(m_pos_thresh) /\ FracLt(m_pos_thresh, AnnIou(j, x))

\* annotation j writes the targets of anchor x
Writes(j, x) == Best(j) = x \/ Exceeds(j, x)

\* the returned class target and ignore flag of anchor x
FinalCls(x) == IF NumLevels = 1 THEN m_targets[2][x[2]] ELSE m_targets[2][x[1]][x[2]]

FinalIgnore(x) == IF NumLevels = 1 THEN m_targets[3][x[2]] ELSE m_targets[3][x[1]][x[2]]

\* C1, as stated: when __call__ returns, the max-IoU anchor of every annotation
\* carries that annotation's label.
C1_MaxAnchorKeepsOwnLabel ==
    m_pc = "done" =>
        \A k \in 1..Len(m_anns) : FinalCls(Best(k)) = m_anns[k].category_id

\* C1, amended: when __call__ returns, the max-IoU anchor of every annotation
\* carries the label of the last annotation in input order that wrote it (the
\* annotation itself unless a later one has the same max-IoU anchor or exceeds
\* pos_thresh on it).
C1_MaxAnchorHasLastWriterLabel ==
    m_pc = "done" =>
        \A k \in 1..Len(m_anns) :
            LET W == {j \in k..Len(m_anns) : Writes(j, Best(k))}
            IN  FinalCls(Best(k)) = m_anns[SetMax(W)].category_id

\* C1 witness: a call has returned in which a later annotation with another label
\* wrote the max-IoU anchor of an earlier one.
C1_Witness ==
    /\ m_pc = "done"
    /\ \E k \in 1..Len(m_anns) : \E j \in (k + 1)..Len(m_anns) :
          /\ Writes(j, Best(k))
          /\ m_anns[j].category_id /= m_anns[k].category_id
          /\ FinalCls(Best(k)) = m_anns[j].category_id

\* C2, as stated: with max_iou=False an anchor has a non-zero class target only if
\* its IoU with some annotation is greater than pos_thresh.
C2_NoMaxIouMeansThresholdOnly ==
    (m_pc = "done" /\ m_max_iou = FALSE) =>
        \A x \in AllAnchors :
            FinalCls(x) /= 0 => \E j \in 1..Len(m_anns) : Exceeds(j, x)

\* C3, as stated: with neg_thresh provided, an anchor is flagged in the ignore mask
\* if and only if its class target is 0 and its IoU with some annotation is not
\* lower than neg_thresh.
C3_IgnoreOnlyNonPositive ==
    (m_pc = "done" /\ Truthy(m_neg_thresh)) =>
        \A x \in AllAnchors :
            FinalIgnore(x) <=>
                (FinalCls(x) = 0 /\
                 \E j \in 1..Len(m_anns) : FracLe(m_neg_thresh, AnnIou(j, x)))

\* the returned location target of anchor x
FinalLoc(x) == IF NumLevels = 1 THEN m_targets[1][x[2]] ELSE m_targets[1][x[1]][x[2]]

\* the annotations that exceed pos_thresh on anchor x
Exceeding(x) == {j \in 1..Len(m_anns) : Exceeds(j, x)}

\* C14: when __call__ returns, an anchor that is the max-IoU anchor of no
\* annotation and exceeds pos_thresh for some annotations has the label and the
\* location target of the last of them in input order.
C14_LastExceedingAnnotationWins ==
    m_pc = "done" =>
        \A x \in AllAnchors :
            ((\A k \in 1..Len(m_anns) : Best(k) /= x) /\ Exceeding(x) /= {}) =>
                /\ FinalCls(x) = m_anns[SetMax(Exceeding(x))].category_id
                /\ FinalLoc(x) =
                       hutil_coords_to_target(AnnBBox(m_anns[SetMax(Exceeding(x))]),
                                              anchors_of_level[x[1]][x[2]])

\* a returned call with an anchor above pos_thresh for two annotations of
\* different labels and boxes, the max-IoU anchor of neither
C14_Witness ==
    /\ m_pc = "done"
    /\ \E x \in AllAnchors :
          /\ \A k \in 1..Len(m_anns) : Best(k) /= x
          /\ Cardinality(Exceeding(x)) >= 2
          /\ \E i, j \in Exceeding(x) :
                /\ m_anns[i].category_id /= m_anns[j].category_id
                /\ m_anns[i].bbox /= m_anns[j].bbox

----------------------------------------------------------------------------
(* Claims about horch match_anchors, match_anchors2 and MatchAnchors *)

\* the IoU of annotation i of the horch call with anchor a, from the boxes alone
HAnnIou(i, a) ==
    iou_11(XYWH_to_LTRB(LTWH_to_XYWH(h_anns[i].bbox)), XYWH_to_LTRB(a_xywh[a]))

\* C4: after match_anchors or match_anchors2 with neg_thresh and a non-empty
\* annotation list, every anchor left negative (class target 0, not ignored) has
\* IoU lower than neg_thresh with every annotation, and every ignored anchor has
\* class target 0.
C4_NegativesBelowNegThresh ==
    (h_pc = "done" /\ Truthy(h_neg_thresh) /\ Len(h_anns) > 0) =>
        \A a \in 1..Len(a_xywh) :
            /\ (h_target[2][a] = 0 /\ ~h_target[3][a]) =>
                   \A i \in 1..Len(h_anns) : FracLt(HAnnIou(i, a), h_neg_thresh)
            /\ h_target[3][a] => h_target[2][a] = 0

\* C4 witness: such a call has returned with a negative, an ignored and a positive
\* anchor whose IoU is not lower than neg_thresh.
C4_Witness ==
    /\ h_pc = "done" /\ Truthy(h_neg_thresh) /\ Len(h_anns) > 0
    /\ \E a \in 1..Len(a_xywh) : h_target[2][a] = 0 /\ ~h_target[3][a]
    /\ \E a \in 1..Len(a_xywh) : h_target[3][a]
    /\ \E a \in 1..Len(a_xywh) :
          /\ h_target[2][a] /= 0
          /\ \E i \in 1..Len(h_anns) : FracLe(h_neg_thresh, HAnnIou(i, a))

\* C8, as stated: a MatchAnchors constructed with neg_thresh=None completes __call__
\* and returns two targets; constructed with a neg_thresh it returns three.
C8_NegThreshOptional ==
    c_pc = "done" =>
        /\ c_neg_thresh = None =>
              (c_result.kind = "return" /\ Len(c_result.targets) = 2)
        /\ (Truthy(c_neg_thresh) /\ c_result.kind = "return") =>
              Len(c_result.targets) = 3

----------------------------------------------------------------------------
(* Claims about hutil MultiBoxLoss *)

\* the anchors of level l that are eligible as negatives: class target 0, not ignored
Eligible(l) ==
    {x \in LossPairs(l) :
        /\ l_cls_targets[l][x[1]][x[2]] = 0
        /\ (l_ignores /= NoIgnores => ~l_ignores[l][x[1]][x[2]])}

NumPos(l) == Cardinality({x \in LossPairs(l) : l_cls_targets[l][x[1]][x[2]] /= 0})

\* C5, as stated: with neg_pos_ratio set, on every level with positives the mined
\* negatives are min(neg_pos_ratio * num_pos, #eligible) eligible anchors (class
\* target 0, not ignored) none of which has a smaller background loss than an
\* eligible anchor left out; no positive or ignored anchor is mined.
C5_MinedAreHardestEligible ==
    (l_pc = "done" /\ l_neg_pos_ratio > 0) =>
        \A l \in 1..Len(l_cls_targets) :
            NumPos(l) > 0 =>
                /\ l <= Len(l_mined)
                /\ l_mined[l] \subseteq Eligible(l)
                /\ Cardinality(l_mined[l]) =
                      Min(l_neg_pos_ratio * NumPos(l), Cardinality(Eligible(l)))
                /\ \A x \in l_mined[l] : \A y \in Eligible(l) \ l_mined[l] :
                      l_bg[l][x[1]][x[2]] >= l_bg[l][y[1]][y[2]]

\* no level of the call has a positive anchor
NoPositives == \A l \in 1..Len(l_cls_targets) : NumPos(l) = 0

\* C21, as stated: the pass of a level without positive anchors leaves both loss
\* accumulators as they were, and a call in which no level has a positive anchor
\* returns a loss of 0 and does not raise, whatever the print probability p is.
C21_SkipsLevelsWithoutPositives ==
    /\ [][(/\ l_pc = "loop"
           /\ l_level <= Len(l_cls_targets)
           /\ NumPos(l_level) = 0) => UNCHANGED <<l_loc_loss, l_cls_loss>>]_vars
    /\ []((l_pc = "done" /\ NoPositives) =>
             /\ l_result.kind = "return"
             /\ l_result.targets.val = <<0, 1>>)

\* what the function MatchAnchors would select on the other device returns for
\* the same arguments, for every resolution of its repeated-index writes
OtherTargets ==
    {IF h_func = "match_anchors"
     THEN match_anchors2(h_anns, h_pos_thresh, h_neg_thresh, w)
     ELSE match_anchors(h_anns, h_pos_thresh, h_neg_thresh, w) : w \in CallWinners(h_anns)}

\* C19, as stated: for the same annotations, anchors, pos_thresh and neg_thresh
\* match_anchors and match_anchors2 return the same location targets, class
\* targets and ignore mask.
C19_BothPathsAgree ==
    (h_pc = "done" /\ h_anns /= <<>>) => h_target \in OtherTargets

----------------------------------------------------------------------------
(* Claims about hutil MultiLevelAnchorInference *)

\* C6, as stated: __call__ returns at most topk detections for every image, for
\* nms='nms' and for nms='soft_nms'.
C6_AtMostTopkDetections ==
    i_pc = "done" =>
        \A n \in 1..Len(i_image_dets) : Len(i_image_dets[n]) <= i_topk

\* detection d is what anchor a of level l of image n (counted from 1) predicts
FromAnchor(d, n, l, a) ==
    /\ d.score = SetMax(Range(i_preds[n][l][a].conf))
    /\ i_preds[n][l][a].conf[d.category_id] = d.score
    /\ d.bbox = LTRB_to_LTWH(XYWH_to_LTRB(
                    ScaleBox(DecodeBox(i_preds[n][l][a].loc, anchors_of_level[l][a]))))

\* C15: with conf_threshold > 0 every returned detection has a score above
\* conf_threshold, is the prediction of an anchor of its image whose highest
\* non-background confidence is that score, has as category_id the index of that
\* class among the non-background classes plus 1, and has as image_id the index
\* of its image in the batch.
C15_DetectionFields ==
    (i_pc = "done" /\ i_conf_threshold > 0) =>
        \A n \in 1..Len(i_image_dets) : \A k \in 1..Len(i_image_dets[n]) :
            LET d == i_image_dets[n][k]
            IN  /\ d.score > i_conf_threshold
                /\ d.image_id = n - 1
                /\ d.category_id \in 1..2
                /\ \E l \in 1..i_num_levels : \E a \in 1..Len(anchors_of_level[l]) :
                      FromAnchor(d, n, l, a)

\* a call with conf_threshold > 0 on two images that filtered an anchor out and
\* returned detections of both classes, one of them for the second image
C15_Witness ==
    /\ i_pc = "done"
    /\ i_conf_threshold > 0
    /\ Len(i_image_dets) = 2
    /\ \E k \in 1..Len(i_image_dets[2]) : i_image_dets[2][k].category_id = 2
    /\ \E k \in 1..Len(i_image_dets[1]) : i_image_dets[1][k].category_id = 1
    /\ \E a \in 1..Len(anchors_of_level[1]) :
          SetMax(Range(i_preds[1][1][a].conf)) <= i_conf_threshold

----------------------------------------------------------------------------
(* Claims about coordinate encoding *)

\* C7: decoding the encoding of a box against an anchor gives the box back, for
\* every anchor of the call, with horch's and with hutil's coords_to_target.
C7_DecodeInvertsEncode ==
    k_pc = "decoded" =>
        /\ Len(k_coords) = Len(k_anchors)
        /\ \A n \in 1..Len(k_coords) :
              k_coords[n] = <<OfInt(k_box[1]), OfInt(k_box[2]), OfInt(k_box[3]), OfInt(k_box[4])>>

\* a box decoded against two different anchors, neither centred on it nor of its size
C7_Witness ==
    /\ k_pc = "decoded"
    /\ Len(k_anchors) = 2
    /\ k_anchors[1] /= k_anchors[2]
    /\ \A n \in 1..2 :
          /\ k_anchors[n][1] /= k_box[1]
          /\ k_anchors[n][3] /= k_box[3]
          /\ k_anchors[n][4] /= k_box[4]
          /\ (k_box[1] - k_anchors[n][1]) % k_anchors[n][3] /= 0

----------------------------------------------------------------------------
(* Claims about hutil mAP *)

GtImages == {p_gts[n].image_id : n \in 1..Len(p_gts)}

GtClasses(i) == {p_gts[n].category_id : n \in {m \in 1..Len(p_gts) : p_gts[m].image_id = i}}

Of(seq, i, c) == SelectSeq(seq, LAMBDA b : b.image_id = i /\ b.category_id = c)

\* what class c contributes to image i
ClassScore(i, c) ==
    IF Of(p_dets, i, c) = <<>> THEN <<0, 1>>
    ELSE AP(Of(p_dets, i, c), Of(p_gts, i, c), MapIouThreshold)

RECURSIVE ClassTotal(_, _)
ClassTotal(i, C) ==
    IF C = {} THEN <<0, 1>>
    ELSE LET c == CHOOSE x \in C : TRUE
         IN  FracAdd(ClassScore(i, c), ClassTotal(i, C \ {c}))

\* the mean over the classes of the ground truths of image i
ImageMean(i) == FracDiv(ClassTotal(i, GtClasses(i)), <<Cardinality(GtClasses(i)), 1>>)

RECURSIVE ImageTotal(_)
ImageTotal(I) ==
    IF I = {} THEN <<0, 1>>
    ELSE LET i == CHOOSE x \in I : TRUE
         IN  FracAdd(ImageMean(i), ImageTotal(I \ {i}))

\* the detections of an image and a class that some ground truth has
Scored(dets) ==
    SelectSeq(dets, LAMBDA d : d.image_id \in GtImages /\ d.category_id \in GtClasses(d.image_id))

\* C9: with ground truths, maps holds for every image with ground truths the mean
\* over that image's ground-truth classes of the class's AP (0 for a class without
\* a detection in the image), the returned value is the mean of maps, and it is
\* the value mAP gives without the detections of other classes and other images.
C9_MeanOverImagesOfClassMeans ==
    (p_pc = "done" /\ p_gts /= <<>>) =>
        /\ Len(p_maps) = Cardinality(GtImages)
        /\ \A k \in 1..Len(p_maps) : p_maps[k] = ImageMean(Keys(p_gts, "image_id")[k])
        /\ p_result = FracDiv(ImageTotal(GtImages), <<Cardinality(GtImages), 1>>)
        /\ p_result = mAP(Scored(p_dets), p_gts, MapIouThreshold)

\* two images with ground truths and different scores, one class without a
\* detection, and a detection that is not scored
C9_Witness ==
    /\ p_pc = "done"
    /\ Len(p_maps) = 2
    /\ p_maps[1] /= p_maps[2]
    /\ \E i \in GtImages : \E c \in GtClasses(i) : Of(p_dets, i, c) = <<>>
    /\ Scored(p_dets) /= p_dets

----------------------------------------------------------------------------
(* Claims about horch stacked_fpn *)

\* C10: with num_stacked >= 2 the returned stack has exactly num_stacked blocks,
\* block 0 an FPN over in_channels_list, the blocks at odd positions FPN2 and those
\* at even positions FPN, each over f_channels on every level; with
\* num_stacked < 2 the call ends in the assertion error with no block built.
C10_AlternatingStack ==
    s_pc = "done" =>
        IF s_num_stacked < 2
        THEN s_result.kind = "raise" /\ s_result.error = "AssertionError" /\ s_layers = <<>>
        ELSE /\ s_result.kind = "Sequential"
             /\ Len(s_result.layers) = s_num_stacked
             /\ s_result.layers[1].kind = "FPN"
             /\ s_result.layers[1].in_channels_list = s_in_channels_list
             /\ \A pos \in 1..(s_num_stacked - 1) :
                   /\ s_result.layers[pos + 1].kind = (IF pos % 2 = 1 THEN "FPN2" ELSE "FPN")
                   /\ s_result.layers[pos + 1].in_channels_list =
                          Repeat(s_f_channels, Len(s_in_channels_list))

\* a stack of four blocks over levels whose channels differ from f_channels
C10_Witness ==
    /\ s_pc = "done"
    /\ s_num_stacked = 4
    /\ s_result.kind = "Sequential"
    /\ Len(s_in_channels_list) >= 2
    /\ s_in_channels_list /= Repeat(s_f_channels, Len(s_in_channels_list))

----------------------------------------------------------------------------
(* Claims about horch FPN2 and FPN *)

\* the levels of in_channels_list are the same and equal to f_channels
Uniform == w_in_channels_list /= <<>> /\ Range(w_in_channels_list) = {w_f_channels}

\* C11: FPN2's construction ends in an assertion error when the levels differ or
\* differ from f_channels and otherwise creates len(in_channels_list) - 1
\* bottom-up blocks; forward on one input per level returns one output per level,
\* output 0 being input 0 and output i bottom-up block i-1 applied to input i
\* and output i-1.
C11_FPN2ChecksChannelsAndChains ==
    (w_kind = "FPN2" /\ w_pc \notin {"start", "idle"}) =>
        /\ ~Uniform => (w_module.kind = "raise" /\ w_module.error = "AssertionError")
        /\ Uniform =>
              /\ w_module.kind = "FPN2"
              /\ Len(w_module.bottomups) = Len(w_in_channels_list) - 1
              /\ (w_pc = "done" /\ w_num_inputs = Len(w_in_channels_list)) =>
                    /\ w_result.kind = "return"
                    /\ Len(w_result.targets) = w_num_inputs
                    /\ w_result.targets[1] = Input(1)
                    /\ \A i \in 2..w_num_inputs :
                          w_result.targets[i] =
                              Applied("BottomUp", i - 1, <<Input(i), w_result.targets[i - 1]>>)

\* an FPN2 over three levels that has run forward on three inputs
C11_Witness ==
    /\ w_kind = "FPN2"
    /\ w_pc = "done"
    /\ Len(w_in_channels_list) = 3
    /\ w_num_inputs = 3
    /\ w_result.kind = "return"

\* C12: FPN.forward on one input per level returns one map per level in the order
\* of the inputs: the last is lat applied to the last input, map i before it is
\* top-down block i applied to input i and map i+1; out_channels holds
\* f_channels once per level.
C12_FPNTopDownChain ==
    (w_kind = "FPN" /\ w_pc \notin {"start", "idle"} /\ w_in_channels_list /= <<>>) =>
        /\ w_module.kind = "FPN"
        /\ w_module.out_channels = Repeat(w_f_channels, Len(w_in_channels_list))
        /\ Len(w_module.topdowns) = Len(w_in_channels_list) - 1
        /\ (w_pc = "done" /\ w_num_inputs = Len(w_in_channels_list)) =>
              /\ w_result.kind = "return"
              /\ Len(w_result.targets) = w_num_inputs
              /\ w_result.targets[w_num_inputs] = Applied("lat", 0, <<Input(w_num_inputs)>>)
              /\ \A i \in 1..(w_num_inputs - 1) :
                    w_result.targets[i] =
                        Applied(w_module.topdowns[i].kind, i,
                                <<Input(i), w_result.targets[i + 1]>>)

\* an FPN over three levels that has run forward on three inputs
C12_Witness ==
    /\ w_kind = "FPN"
    /\ w_pc = "done"
    /\ Len(w_in_channels_list) = 3
    /\ w_num_inputs = 3
    /\ w_result.kind = "return"

----------------------------------------------------------------------------
(* Claims about hutil segmentation ToTensor *)

\* C13, as stated: for every num_classes and every 8-bit image the call returns
\* labels in which each pixel of value 255 is num_classes + 1 and every other
\* pixel keeps its value.
C13_BorderIsNumClassesPlusOne ==
    t_pc = "done" =>
        /\ t_result.kind = "return"
        /\ Len(t_result.targets) = Len(t_seg)
        /\ \A i \in 1..Len(t_seg) :
              t_result.targets[i] = IF t_seg[i] = 255 THEN t_num_classes + 1 ELSE t_seg[i]

----------------------------------------------------------------------------
(* Claims about hutil AP *)

\* the IoU of detection i with ground truth j
DtIou(i, j) == iou_11(a_dts[i].bbox, a_gts[j].bbox)

\* the first ground truth with which detection i has its highest IoU
Nearest(i) ==
    CHOOSE j \in 1..Len(a_gts) :
        /\ \A h \in 1..Len(a_gts) : FracLe(DtIou(i, h), DtIou(i, j))
        /\ \A h \in 1..(j - 1) : FracLt(DtIou(i, h), DtIou(i, j))

\* C16: detection i is a true positive exactly if its nearest ground truth has
\* IoU above iou_threshold and no earlier true positive has the same nearest
\* ground truth; so no ground truth is credited twice, the true positives are at
\* most min(len(dts), len(gts)), and each detection is one of TP and FP.
C16_OneCreditPerGroundTruth ==
    /\ \A i \in 1..Len(a_TP) :
          /\ a_TP[i] \in {0, 1}
          /\ a_TP[i] = 1 <=>
                /\ FracLt(MapIouThreshold, DtIou(i, Nearest(i)))
                /\ \A h \in 1..(i - 1) : ~(a_TP[h] = 1 /\ Nearest(h) = Nearest(i))
    /\ \A i, h \in 1..Len(a_TP) :
          (a_TP[i] = 1 /\ a_TP[h] = 1 /\ Nearest(i) = Nearest(h)) => i = h
    /\ np_cumsum(a_TP \o <<0>>)[Len(a_TP) + 1] <= Min(Len(a_dts), Len(a_gts))
    /\ a_seen = {Nearest(i) : i \in {h \in 1..Len(a_TP) : a_TP[h] = 1}}

\* two detections nearest the same ground truth above the threshold: the first
\* credited, the second not
C16_Witness ==
    /\ a_pc = "done"
    /\ Len(a_gts) = 2
    /\ a_TP = <<1, 0>>
    /\ Nearest(1) = Nearest(2)
    /\ FracLt(MapIouThreshold, DtIou(2, Nearest(2)))

\* C17: AP is 1 when every detection is a true positive and every ground truth
\* is matched, 0 when no detection is a true positive, always between 0 and 1,
\* and the precision it sums is non-increasing.
C17_APBounds ==
    a_pc = "done" =>
        /\ ((\A i \in 1..Len(a_TP) : a_TP[i] = 1) /\ Cardinality(a_seen) = Len(a_gts))
              => a_ap = <<1, 1>>
        /\ (\A i \in 1..Len(a_TP) : a_TP[i] = 0) => a_ap = <<0, 1>>
        /\ FracLe(<<0, 1>>, a_ap) /\ FracLe(a_ap, <<1, 1>>)
        /\ \A i \in 2..Len(a_mpre) : FracLe(a_mpre[i], a_mpre[i - 1])

\* a false positive followed by a true positive: the envelope lifts the first
\* precision and AP lies strictly between 0 and 1
C17_Witness ==
    /\ a_pc = "done"
    /\ a_TP = <<0, 1>>
    /\ FracLt(<<0, 1>>, a_ap)
    /\ FracLt(a_ap, <<1, 1>>)

----------------------------------------------------------------------------
(* Claims about hutil get_locations *)

\* ceil(a / b) for positive b
CeilDiv(a, b) == (a + b - 1) \div b

\* C18: for strides that are consecutive powers of two ending at 2^k, at most
\* k + 1 of them, get_locations returns one pair per stride, the pair of stride
\* 2^j being (ceil(size_x / 2^j), ceil(size_y / 2^j)), and each pair follows
\* from the one before it by (l - 1) // 2 + 1.
C18_LocationsAreCeilings ==
    g_pc = "done" =>
        /\ Len(g_result) = Len(g_strides)
        /\ \A i \in 1..Len(g_result) :
              g_result[i] = <<CeilDiv(g_size[1], g_strides[i]), CeilDiv(g_size[2], g_strides[i])>>
        /\ \A i \in 2..Len(g_result) :
              /\ g_result[i][1] = (g_result[i - 1][1] - 1) \div 2 + 1
              /\ g_result[i][2] = (g_result[i - 1][2] - 1) \div 2 + 1

\* three strides ending at 8 on a size whose sides are no multiples of 8
C18_Witness ==
    /\ g_pc = "done"
    /\ g_strides = <<2, 4, 8>>
    /\ g_size = <<5, 6>>
    /\ g_result = <<<<3, 3>>, <<2, 2>>, <<1, 1>>>>

----------------------------------------------------------------------------
(* Claims about horch sample *)

\* C20, as stated: for every t and every n >= 0 the call returns, without
\* failing, exactly n elements, each the element of t at a drawn position, and
\* when len(t) >= n no position is drawn twice.
C20_SampleReturnsN ==
    r_pc = "done" =>
        /\ r_result.kind = "return"
        /\ Len(r_result.targets) = r_n
        /\ \A i \in 1..r_n :
              /\ r_indices[i] \in 1..Len(r_t)
              /\ r_result.targets[i] = r_t[r_indices[i]]
        /\ Len(r_t) >= r_n =>
              \A i, j \in 1..r_n : i /= j => r_indices[i] /= r_indices[j]

====
